---- MODULE Spec2Model ----
(***************************************************************************)
(* EquiLedger core: the ledger tables (clients, invoices, invoice items,   *)
(* payments), the request handlers that mutate them (CreateInvoice through *)
(* the AI service, POST /api/invoices and the workflow create_invoice      *)
(* step; POST /api/invoices/[id]/mark-paid) and WorkflowEngine.execute().  *)
(* Every await of a handler is one atomic step, so concurrent requests     *)
(* interleave exactly at the repository calls.                             *)
(***************************************************************************)
EXTENDS Integers, Sequences, FiniteSets, Bags, TLC

VARIABLES
    clients,        \* table clients: sequence of rows, id = position
    invoices,       \* table invoices: sequence of rows, id = position
    invoiceItems,   \* table invoice_items
    payments,       \* table payments
    expenses,       \* table expenses
    reqs,           \* the requests in flight: a bag of handler activations
    lastResponse,   \* the response most recently returned, with its request
    started,        \* number of requests received so far
    now,            \* the clock read by new Date()
    steps,          \* WorkflowContext.steps
    currentStep,    \* WorkflowContext.currentStep
    results,        \* WorkflowContext.results
    errors,         \* WorkflowContext.errors
    retryCount,     \* execute(): let retryCount
    wfPc,           \* execute(): position of the engine
    inFlight,       \* number of executeStep invocations started and not yet settled
    attempts,       \* per step index, the outcome of each executeStep invocation
    delays,         \* the delays requested since the last success, in ms
    ret,            \* the value execute() returned
    split           \* one evaluation of the VAT split of createInvoice

ledgerVars == <<clients, invoices, invoiceItems, payments, expenses, reqs, lastResponse,
                started, now>>
wfVars == <<steps, currentStep, results, errors, retryCount, wfPc, inFlight,
            attempts, delays, ret>>
vars == <<clients, invoices, invoiceItems, payments, expenses, reqs, lastResponse,
          started, now,
          steps, currentStep, results, errors, retryCount, wfPc, inFlight,
          attempts, delays, ret, split>>
calcVars == <<split>>

(***************************************************************************)
(* Bounds of the model.                                                    *)
(***************************************************************************)
MaxConc == 2
MaxRequests == 2
MaxTime == 1
MaxSteps == 3
MaxCalls == 4
MaxAmount == 120

\* x / y rounded to the nearest integer, halves away from zero (x, y >= 0):
\* what storing a number in a decimal(12,2) column does to the cents.
RoundDiv(x, y) == (2 * x + y) \div (2 * y)

NULL == 0

(***************************************************************************)
(* Inputs. Users is the content of table users (the core never writes it); *)
(* "ghost" is a well-formed id of no user, "not-a-uuid" is malformed.      *)
(* Amounts are in cents.                                                   *)
(***************************************************************************)
Users == {"u1", "u2"}
UserIds == Users \cup {"ghost"}
BodyUserIds == UserIds \cup {"not-a-uuid"}
ClientNames == {"ABC Company"}
Amounts == {50000}
Descriptions == {"Consulting"}
DueInDays == {30}
Entries == {"ai", "api", "wf"}
IsUuid(s) == s # "not-a-uuid"

\* Parameters a caller may send that the description of CreateInvoice
\* rules out: an empty string, a non-positive number.
AnyClientNames == ClientNames \cup {""}
AnyAmounts == Amounts \cup {0}
AnyDescriptions == Descriptions \cup {""}
AnyDueInDays == DueInDays \cup {0}

(***************************************************************************)
(* The zod schemas the three CreateInvoice entry points parse their        *)
(* parameters with. z.string() accepts every string, z.string().min(1)     *)
(* those of length >= 1, z.number() every number, z.number().positive()    *)
(* those > 0.                                                              *)
(***************************************************************************)
\* lib/ai/service.ts: CreateInvoiceSchema
AiCreateInvoiceSchema(clientName, amount, description, dueInDays) ==
    /\ Len(clientName) >= 0
    /\ amount > 0
    /\ Len(description) >= 0
    /\ dueInDays > 0

\* api/invoices: CreateInvoiceSchema
ApiCreateInvoiceSchema(userId, clientName, amount, description, dueInDays) ==
    /\ IsUuid(userId)
    /\ Len(clientName) >= 1
    /\ amount > 0
    /\ Len(description) >= 1
    /\ dueInDays > 0

\* workflow engine: CreateInvoiceStepSchema
CreateInvoiceStepSchema(userId, clientName, amount, description, dueInDays) ==
    /\ Len(userId) >= 0
    /\ Len(clientName) >= 0
    /\ amount \in Int
    /\ Len(description) >= 0
    /\ dueInDays \in Int

\* Whether the entry point's parse() returns rather than throws.
Parses(entry, userId, clientName, amount, description, dueInDays) ==
    CASE entry = "ai" -> AiCreateInvoiceSchema(clientName, amount, description, dueInDays)
      [] entry = "api" ->
            ApiCreateInvoiceSchema(userId, clientName, amount, description, dueInDays)
      [] entry = "wf" ->
            CreateInvoiceStepSchema(userId, clientName, amount, description, dueInDays)

(***************************************************************************)
(* Financial arithmetic of CreateInvoice and mark-paid, in cents.          *)
(***************************************************************************)
VatRatePct == 15

\* const subtotal = vatIncluded ? amount / (1 + vatRate) : amount, as stored
\* in invoice_items.line_total (decimal(12,2)).
Subtotal(amount, vatIncluded) ==
    IF vatIncluded THEN RoundDiv(amount * 100, 100 + VatRatePct) ELSE amount

\* const total = vatIncluded ? amount : amount + amount * vatRate
CreateTotal(amount, vatIncluded) ==
    IF vatIncluded THEN amount ELSE RoundDiv(amount * (100 + VatRatePct), 100)

\* The same amounts for a VAT rate of ratePct percent, each as reported by
\* Number(x.toFixed(2)). The value is x / y cents exactly; toFixed rounds
\* the double nearest to it, so that an exact half-cent goes either way.
ToFixed2(x, y) ==
    IF (2 * x) % (2 * y) = y THEN {x \div y, (x \div y) + 1} ELSE {RoundDiv(x, y)}

\* subtotal = vatIncluded ? amount / (1 + vatRate) : amount
SubtotalAt(amount, vatIncluded, ratePct) ==
    IF vatIncluded THEN ToFixed2(amount * 100, 100 + ratePct) ELSE {amount}

\* The VAT taken as amount * vatRate whatever vatIncluded says.
VatAmountOnTop(amount, vatIncluded, ratePct) == ToFixed2(amount * ratePct, 100)

\* vatAmount = vatIncluded ? amount - subtotal : amount * vatRate, where
\* amount - amount / (1 + vatRate) = amount * vatRate / (1 + vatRate).
VatAmountAt(amount, vatIncluded, ratePct) ==
    IF vatIncluded THEN ToFixed2(amount * ratePct, 100 + ratePct) ELSE ToFixed2(amount * ratePct, 100)

\* total = vatIncluded ? amount : amount + vatAmount
TotalAt(amount, vatIncluded, ratePct) ==
    IF vatIncluded THEN {amount} ELSE ToFixed2(amount * (100 + ratePct), 100)

\* mark-paid: const total = vatIncluded ? subtotal : subtotal + subtotal * vatRate
MarkPaidTotal(subtotal, vatIncluded, vatRate) ==
    IF vatIncluded THEN subtotal ELSE RoundDiv(subtotal * (100 + vatRate), 100)

(***************************************************************************)
(* Invoice numbers: `INV-${String(count + 1).padStart(4, '0')}`, as the    *)
(* sequence of its characters.                                             *)
(***************************************************************************)
DigitChar(d) ==
    CASE d = 0 -> "0" [] d = 1 -> "1" [] d = 2 -> "2" [] d = 3 -> "3"
      [] d = 4 -> "4" [] d = 5 -> "5" [] d = 6 -> "6" [] d = 7 -> "7"
      [] d = 8 -> "8" [] d = 9 -> "9"

RECURSIVE ToDigits(_)
ToDigits(n) ==
    IF n < 10 THEN <<DigitChar(n)>>
    ELSE ToDigits(n \div 10) \o <<DigitChar(n % 10)>>

RECURSIVE PadStart(_, _, _)
PadStart(s, len, ch) == IF Len(s) >= len THEN s ELSE PadStart(<<ch>> \o s, len, ch)

\* Mutant: the next number skips one.
NextNumberSkips(count) == count + 2

NextNumber(count) == count + 1

InvoiceNumber(count) ==
    <<"I", "N", "V", "-">> \o PadStart(ToDigits(NextNumber(count)), 4, "0")

(***************************************************************************)
(* Repository queries.                                                     *)
(***************************************************************************)
\* db.select().from(invoices).where(eq(invoices.userId, userId))
InvoicesOf(userId) == {i \in DOMAIN invoices : invoices[i].userId = userId}

\* db.select().from(clients).where(and(eq(userId), eq(name))).limit(1)
ClientsNamed(userId, name) ==
    {c \in DOMAIN clients : clients[c].userId = userId /\ clients[c].name = name}

\* Mutant: the invoice_number column carries no unique index.
InvoiceNumberTakenNoIndex(num) == FALSE

\* invoices.invoiceNumber is declared unique(): an insert of a number some
\* row already holds is rejected by the database.
InvoiceNumberTaken(num) == \E i \in DOMAIN invoices : invoices[i].invoiceNumber = num

\* db.select().from(invoiceItems).where(eq(invoiceItems.invoiceId, id))
ItemsOf(id) == {k \in DOMAIN invoiceItems : invoiceItems[k].invoiceId = id}

PaymentsOf(id) == {k \in DOMAIN payments : payments[k].invoiceId = id}

RECURSIVE SumLineTotals(_)
SumLineTotals(ks) ==
    IF ks = {} THEN 0
    ELSE LET k == CHOOSE x \in ks : TRUE
         IN invoiceItems[k].lineTotal + SumLineTotals(ks \ {k})

(***************************************************************************)
(* Responses of the handlers.                                              *)
(***************************************************************************)
Response(success, status, message) ==
    [success |-> success, status |-> status, message |-> message]

NoResponse == Response(FALSE, 0, "")

\* The summary a successful getFinancialSummary carries, in cents.
SummaryData(totalRevenue, totalExpenses, vatCollected, invoiceCount, expenseCount) ==
    [totalRevenue |-> totalRevenue, totalExpenses |-> totalExpenses,
     netProfit |-> totalRevenue - totalExpenses, vatCollected |-> vatCollected,
     invoiceCount |-> invoiceCount, expenseCount |-> expenseCount]

NoData == SummaryData(0, 0, 0, 0, 0)

\* What a CreateInvoice entry point hands back on success.
CreateSuccess(entry) ==
    CASE entry = "ai" -> Response(TRUE, 0, "Invoice created")
      [] entry = "api" -> Response(TRUE, 200, "")
      [] entry = "wf" -> Response(TRUE, 0, "")

\* What a CreateInvoice entry point hands back when err was thrown inside it:
\* the AI service catches everything, the route answers 500, the workflow
\* step lets the error escape to the engine.
CreateFailure(entry, err) ==
    CASE entry = "ai" ->
            Response(FALSE, 0, "Sorry, there was an error creating your invoice. Please try again.")
      [] entry = "api" -> Response(FALSE, 500, "Failed to create invoice")
      [] entry = "wf" -> Response(FALSE, 0, err)

\* The user row is missing: the route returns 404, the others throw.
CreateUserNotFound(entry) ==
    IF entry = "api" THEN Response(FALSE, 404, "User not found")
    ELSE CreateFailure(entry, "User not found")

\* parse() threw a ZodError: the route answers 400, the AI service its
\* generic failure, the workflow step lets it escape.
CreateInvalid(entry) ==
    IF entry = "api" THEN Response(FALSE, 400, "Invalid request data")
    ELSE CreateFailure(entry, "ZodError")

MarkPaidSuccess == Response(TRUE, 200, "Invoice marked as paid")
MarkPaidNotFound == Response(FALSE, 404, "Invoice not found")
MarkPaidAlreadyPaid == Response(FALSE, 400, "Invoice is already paid")
MarkPaidInvalid == Response(FALSE, 400, "Invalid request data")
MarkPaidFailure == Response(FALSE, 500, "Failed to mark invoice as paid")

LogExpenseSuccess == Response(TRUE, 0, "Expense logged")
LogExpenseFailure ==
    Response(FALSE, 0, "Sorry, there was an error logging your expense. Please try again.")
\* logExpense failed with err: the AI service answers its fixed message, the
\* workflow step lets the error escape to the engine.
ExpenseFailure(entry, err) ==
    IF entry = "wf" THEN Response(FALSE, 0, err) ELSE LogExpenseFailure
SummarySuccess == Response(TRUE, 0, "Summary")
SummaryFailure ==
    Response(FALSE, 0,
             "Sorry, there was an error generating your financial summary. Please try again.")

ForeignKeyError == "insert or update on table violates foreign key constraint"
InvalidTimeError == "RangeError: Invalid time value"
UniqueViolationError == "duplicate key value violates unique constraint"
ConnectionError == "connection terminated unexpectedly"
ReferenceError == "ReferenceError: Cannot access 'expenses' before initialization"

(***************************************************************************)
(* Requests. A slot holds one request from its arrival to its response;    *)
(* the fields are the handler's parameters and locals.                     *)
(***************************************************************************)
IdleReq ==
    [kind |-> "none", entry |-> "none", pc |-> "idle", userId |-> "",
     clientName |-> "", amount |-> 0, description |-> "", dueInDays |-> 0,
     vatIncluded |-> TRUE, vatRate |-> 0,
     clientId |-> NULL, invoiceNumber |-> <<>>, invoiceId |-> NULL,
     total |-> 0, category |-> "", date |-> NULL, period |-> "",
     startDate |-> NULL, vatCollected |-> 0, invoiceCount |-> 0,
     reportType |-> "", totalExpenses |-> 0, expenseCount |-> 0]

InFlight == BagToSet(reqs)

\* A new request is accepted while fewer than MaxConc are being handled.
CanAccept == BagCardinality(reqs) < MaxConc /\ started < MaxRequests

Replace(q, rec) == (reqs (-) SetToBag({q})) (+) SetToBag({rec})

\* The handler returns: err is the error it caught (if any), resp what the
\* caller receives.
FinishWith(q, err, resp, data) ==
    /\ lastResponse' = [kind |-> q.kind, entry |-> q.entry, userId |-> q.userId,
                        invoiceId |-> q.invoiceId, invoiceNumber |-> q.invoiceNumber,
                        error |-> err, response |-> resp, data |-> data]
    /\ reqs' = reqs (-) SetToBag({q})

Finish(q, err, resp) == FinishWith(q, err, resp, NoData)

\* The handler returns before its first await (its parse() threw).
Reject(kind, entry, userId, invoiceId, resp) ==
    /\ lastResponse' = [kind |-> kind, entry |-> entry, userId |-> userId,
                        invoiceId |-> invoiceId, invoiceNumber |-> <<>>,
                        error |-> "ZodError", response |-> resp, data |-> NoData]
    /\ reqs' = reqs

\* The handler moves on to its next await with its locals as in rec.
Continue(q, rec) ==
    /\ reqs' = Replace(q, rec)
    /\ UNCHANGED lastResponse

\* A CreateInvoice request arrives: the entry point parses the parameters
\* with its schema; its first await is the lookup of the user.
StartCreateInvoice(entry, userId, clientName, amount, description, dueInDays, vatIncluded) ==
    /\ CanAccept
    /\ started' = started + 1
    /\ LET req == [IdleReq EXCEPT !.kind = "createInvoice", !.entry = entry,
                                  !.userId = userId,
                                  !.clientName = clientName, !.amount = amount,
                                  !.description = description,
                                  !.dueInDays = dueInDays,
                                  !.vatIncluded = vatIncluded]
       IN IF Parses(entry, userId, clientName, amount, description, dueInDays)
          THEN reqs' = reqs (+) SetToBag({[req EXCEPT !.pc = "selectUser"]})
               /\ UNCHANGED lastResponse
          ELSE Reject("createInvoice", entry, userId, NULL, CreateInvalid(entry))
    /\ UNCHANGED <<clients, invoices, invoiceItems, payments, now>>
    /\ UNCHANGED expenses
    /\ UNCHANGED wfVars
    /\ UNCHANGED calcVars

\* db.select().from(users).where(eq(users.id, userId)).limit(1)
SelectUser(q) ==
    /\ q.pc = "selectUser"
    /\ IF q.userId \in Users
       THEN Continue(q, [q EXCEPT !.pc = "selectClient"])
       ELSE Finish(q, "User not found", CreateUserNotFound(q.entry))
    /\ UNCHANGED <<clients, invoices, invoiceItems, payments, started, now>>
    /\ UNCHANGED expenses
    /\ UNCHANGED wfVars
    /\ UNCHANGED calcVars

\* Get or create client: the select.
SelectClient(q) ==
    /\ q.pc = "selectClient"
    /\ LET found == ClientsNamed(q.userId, q.clientName)
       IN IF found = {}
          THEN Continue(q, [q EXCEPT !.pc = "insertClient"])
          ELSE \E c \in found :
                  Continue(q, [q EXCEPT !.pc = "countInvoices", !.clientId = c])
    /\ UNCHANGED <<clients, invoices, invoiceItems, payments, started, now>>
    /\ UNCHANGED expenses
    /\ UNCHANGED wfVars
    /\ UNCHANGED calcVars

\* Get or create client: the insert when the select found none.
InsertClient(q) ==
    /\ q.pc = "insertClient"
    /\ clients' = Append(clients, [userId |-> q.userId, name |-> q.clientName])
    /\ Continue(q, [q EXCEPT !.pc = "countInvoices", !.clientId = Len(clients) + 1])
    /\ UNCHANGED <<invoices, invoiceItems, payments, started, now>>
    /\ UNCHANGED expenses
    /\ UNCHANGED wfVars
    /\ UNCHANGED calcVars

\* Generate invoice number: read the user's invoices, format count + 1.
CountInvoices(q) ==
    /\ q.pc = "countInvoices"
    /\ Continue(q, [q EXCEPT
                        !.pc = "insertInvoice",
                        !.invoiceNumber =
                            InvoiceNumber(Cardinality(InvoicesOf(q.userId)))])
    /\ UNCHANGED <<clients, invoices, invoiceItems, payments, started, now>>
    /\ UNCHANGED expenses
    /\ UNCHANGED wfVars
    /\ UNCHANGED calcVars

\* db.insert(invoices).values({...}).returning(): rejected by the unique
\* index when the number is taken, and the handler has no retry.
InsertInvoice(q) ==
    /\ q.pc = "insertInvoice"
    /\ IF InvoiceNumberTaken(q.invoiceNumber)
       THEN /\ Finish(q, UniqueViolationError,
                      CreateFailure(q.entry, UniqueViolationError))
            /\ UNCHANGED invoices
       ELSE /\ invoices' = Append(invoices,
                    [userId |-> q.userId, clientId |-> q.clientId,
                     invoiceNumber |-> q.invoiceNumber,
                     vatIncluded |-> q.vatIncluded, vatRate |-> VatRatePct,
                     status |-> "DRAFT", paidAt |-> NULL])
            /\ Continue(q, [q EXCEPT !.pc = "insertItem",
                                           !.invoiceId = Len(invoices) + 1,
                                           !.total = CreateTotal(q.amount,
                                                                 q.vatIncluded)])
    /\ UNCHANGED <<clients, invoiceItems, payments, started, now>>
    /\ UNCHANGED expenses
    /\ UNCHANGED wfVars
    /\ UNCHANGED calcVars

\* db.insert(invoiceItems).values({...}), then the success result.
InsertItem(q) ==
    /\ q.pc = "insertItem"
    /\ invoiceItems' = Append(invoiceItems,
            [invoiceId |-> q.invoiceId, description |-> q.description,
             quantity |-> 1,
             lineTotal |-> Subtotal(q.amount, q.vatIncluded)])
    /\ Finish(q, "", CreateSuccess(q.entry))
    /\ UNCHANGED <<clients, invoices, payments, started, now>>
    /\ UNCHANGED expenses
    /\ UNCHANGED wfVars
    /\ UNCHANGED calcVars

\* POST /api/invoices/[id]/mark-paid arrives: MarkPaidSchema.parse(body).
StartMarkPaid(userId, invoiceId) ==
    /\ CanAccept
    /\ started' = started + 1
    /\ LET req == [IdleReq EXCEPT !.kind = "markPaid", !.entry = "route",
                                  !.userId = userId, !.invoiceId = invoiceId]
       IN IF IsUuid(userId)
          THEN reqs' = reqs (+) SetToBag({[req EXCEPT !.pc = "selectInvoice"]})
               /\ UNCHANGED lastResponse
          ELSE Reject("markPaid", "route", userId, invoiceId, MarkPaidInvalid)
    /\ UNCHANGED <<clients, invoices, invoiceItems, payments, now>>
    /\ UNCHANGED expenses
    /\ UNCHANGED wfVars
    /\ UNCHANGED calcVars

\* Mutant: the select does not filter on the owning user.
MarkPaidLookupAnyOwner(id, userId) == {i \in DOMAIN invoices : i = id}

\* The invoice as the mark-paid select sees it: by id and owning user.
MarkPaidLookup(id, userId) ==
    {i \in DOMAIN invoices : i = id /\ invoices[i].userId = userId}

\* Mutant: the handler does not look at the status it read.
RejectsStatusNever(status) == FALSE

\* Whether mark-paid refuses an invoice in this status.
RejectsStatus(status) == status = "PAID"

\* Get invoice; 404 when absent, 400 when already paid.
MarkPaidSelectInvoice(q) ==
    /\ q.pc = "selectInvoice"
    /\ LET found == MarkPaidLookup(q.invoiceId, q.userId)
       IN IF found = {}
          THEN Finish(q, "", MarkPaidNotFound)
          ELSE LET inv == invoices[q.invoiceId]
               IN IF RejectsStatus(inv.status)
                  THEN Finish(q, "", MarkPaidAlreadyPaid)
                  ELSE Continue(q, [q EXCEPT !.pc = "selectItems",
                                                   !.vatIncluded = inv.vatIncluded,
                                                   !.vatRate = inv.vatRate])
    /\ UNCHANGED <<clients, invoices, invoiceItems, payments, started, now>>
    /\ UNCHANGED expenses
    /\ UNCHANGED wfVars
    /\ UNCHANGED calcVars

\* Get invoice items to calculate total.
MarkPaidSelectItems(q) ==
    /\ q.pc = "selectItems"
    /\ Continue(q, [q EXCEPT
                        !.pc = "updateInvoice",
                        !.total = MarkPaidTotal(SumLineTotals(ItemsOf(q.invoiceId)),
                                                q.vatIncluded, q.vatRate)])
    /\ UNCHANGED <<clients, invoices, invoiceItems, payments, started, now>>
    /\ UNCHANGED expenses
    /\ UNCHANGED wfVars
    /\ UNCHANGED calcVars

\* Mutant: the update sets the status and leaves paidAt alone.
MarkPaidUpdateStatusOnly(q) ==
    /\ q.pc = "updateInvoice"
    /\ invoices' = [invoices EXCEPT ![q.invoiceId].status = "PAID"]
    /\ Continue(q, [q EXCEPT !.pc = "insertPayment"])
    /\ UNCHANGED <<clients, invoiceItems, payments, started, now>>
    /\ UNCHANGED expenses
    /\ UNCHANGED wfVars
    /\ UNCHANGED calcVars

\* db.update(invoices).set({status: 'PAID', paidAt: new Date()}).where(eq(id))
MarkPaidUpdate(q) ==
    /\ q.pc = "updateInvoice"
    /\ invoices' = [invoices EXCEPT ![q.invoiceId].status = "PAID",
                                    ![q.invoiceId].paidAt = now]
    /\ Continue(q, [q EXCEPT !.pc = "insertPayment"])
    /\ UNCHANGED <<clients, invoiceItems, payments, started, now>>
    /\ UNCHANGED expenses
    /\ UNCHANGED wfVars
    /\ UNCHANGED calcVars

\* db.insert(payments).values({invoiceId, amount: total, ...}), then 200.
MarkPaidInsertPayment(q) ==
    /\ q.pc = "insertPayment"
    /\ payments' = Append(payments,
            [invoiceId |-> q.invoiceId, amount |-> q.total, paidAt |-> now])
    /\ Finish(q, "", MarkPaidSuccess)
    /\ UNCHANGED <<clients, invoices, invoiceItems, started, now>>
    /\ UNCHANGED expenses
    /\ UNCHANGED wfVars
    /\ UNCHANGED calcVars

(***************************************************************************)
(* AIService.logExpense and AIService.getFinancialSummary. The clock unit  *)
(* is one month, counted from a January: timestamps are kept to the month. *)
(***************************************************************************)
ExpenseAmounts == {45000}
AnyExpenseAmounts == ExpenseAmounts \cup {0}
Categories == {"transport"}
Periods == {"month", "quarter", "year"}
AnyPeriods == Periods \cup {"week"}

\* params.date: absent (NULL), a parseable date, or a string new Date()
\* turns into an Invalid Date.
InvalidDate == -1
DateInputs == {NULL, InvalidDate} \cup (1..(MaxTime + 1))

\* LogExpenseSchema
LogExpenseSchema(amount, description, category) ==
    /\ amount > 0
    /\ Len(description) >= 0
    /\ Len(category) >= 0

\* FinancialSummarySchema
FinancialSummarySchema(period) == period \in {"month", "quarter", "year"}

\* const vatAmount = amount * (vatRate / (1 + vatRate)), as stored in
\* expenses.vat_amount (decimal(12,2)).
ExpenseVat(amount) == RoundDiv(amount * VatRatePct, 100 + VatRatePct)

\* validatedParams.date ? new Date(validatedParams.date) : new Date()
ExpenseDate(date, t) == IF date = NULL THEN t ELSE date

\* logExpense arrives: parse, compute the VAT and the date; its one await
\* is the insert.
StartLogExpense(userId, amount, description, category, date) ==
    /\ CanAccept
    /\ started' = started + 1
    /\ LET req == [IdleReq EXCEPT !.kind = "logExpense", !.entry = "ai",
                                  !.userId = userId, !.amount = amount,
                                  !.description = description,
                                  !.category = category,
                                  !.date = ExpenseDate(date, now)]
       IN IF LogExpenseSchema(amount, description, category)
          THEN reqs' = reqs (+) SetToBag({[req EXCEPT !.pc = "insertExpense"]})
               /\ UNCHANGED lastResponse
          ELSE Reject("logExpense", "ai", userId, NULL, LogExpenseFailure)
    /\ UNCHANGED <<clients, invoices, invoiceItems, payments, expenses, now>>
    /\ UNCHANGED wfVars
    /\ UNCHANGED calcVars

\* db.insert(expenses).values({...}).returning(): throws on an Invalid Date
\* and on a user_id that references no user.
InsertExpense(q) ==
    /\ q.pc = "insertExpense"
    /\ IF q.date = InvalidDate
       THEN Finish(q, InvalidTimeError, ExpenseFailure(q.entry, InvalidTimeError))
            /\ UNCHANGED expenses
       ELSE IF q.userId \notin Users
       THEN Finish(q, ForeignKeyError, ExpenseFailure(q.entry, ForeignKeyError))
            /\ UNCHANGED expenses
       ELSE /\ expenses' = Append(expenses,
                    [userId |-> q.userId, description |-> q.description,
                     amount |-> q.amount, category |-> q.category,
                     date |-> q.date, vatAmount |-> ExpenseVat(q.amount)])
            /\ Finish(q, "", LogExpenseSuccess)
    /\ UNCHANGED <<clients, invoices, invoiceItems, payments, started, now>>
    /\ UNCHANGED wfVars
    /\ UNCHANGED calcVars

\* Calculate date range: the first day of the month, of the 3-month block,
\* of the year that contains t.
PeriodStart(period, t) ==
    CASE period = "month" -> t
      [] period = "quarter" -> (t \div 3) * 3
      [] period = "year" -> (t \div 12) * 12
      [] OTHER -> t

\* The paid invoices in period of every user.
PaidRowsOfAnyUser(userId, startDate, endDate) ==
    {k \in DOMAIN invoiceItems :
        LET i == invoiceItems[k].invoiceId
        IN /\ i \in DOMAIN invoices
           /\ invoices[i].status = "PAID"
           /\ invoices[i].paidAt # NULL
           /\ invoices[i].paidAt >= startDate
           /\ invoices[i].paidAt <= endDate}

\* Get paid invoices in period: the rows of invoices joined with their
\* items, one per item.
PaidRows(userId, startDate, endDate) ==
    {k \in DOMAIN invoiceItems :
        LET i == invoiceItems[k].invoiceId
        IN /\ i \in DOMAIN invoices
           /\ invoices[i].userId = userId
           /\ invoices[i].status = "PAID"
           /\ invoices[i].paidAt # NULL
           /\ invoices[i].paidAt >= startDate
           /\ invoices[i].paidAt <= endDate}

\* Expenses of the user from startDate on, with no end of the window.
PeriodExpensesNoEnd(userId, startDate, endDate) ==
    {k \in DOMAIN expenses :
        /\ expenses[k].userId = userId
        /\ expenses[k].date >= startDate}

\* Get expenses in period.
PeriodExpenses(userId, startDate, endDate) ==
    {k \in DOMAIN expenses :
        /\ expenses[k].userId = userId
        /\ expenses[k].date >= startDate
        /\ expenses[k].date <= endDate}

RECURSIVE SumAmounts(_)
SumAmounts(ks) ==
    IF ks = {} THEN 0
    ELSE LET k == CHOOSE x \in ks : TRUE
         IN expenses[k].amount + SumAmounts(ks \ {k})

\* The VAT of one joined row, in thousandths of a cent:
\* vatIncluded ? lineTotal * (vatRate / (1 + vatRate)) : lineTotal * vatRate
VatOfRow(k) ==
    LET inv == invoices[invoiceItems[k].invoiceId]
        lineTotal == invoiceItems[k].lineTotal
    IN IF inv.vatIncluded
       THEN RoundDiv(lineTotal * inv.vatRate * 1000, 100 + inv.vatRate)
       ELSE lineTotal * inv.vatRate * 10

RECURSIVE SumVat(_)
SumVat(ks) ==
    IF ks = {} THEN 0
    ELSE LET k == CHOOSE x \in ks : TRUE
         IN VatOfRow(k) + SumVat(ks \ {k})

\* Number(vatCollected.toFixed(2)), in cents.
VatCollected(ks) == RoundDiv(SumVat(ks), 1000)

\* getFinancialSummary arrives: parse, read the clock, compute the start of
\* the period; its first await is the select of the paid invoices.
StartGetFinancialSummary(userId, period) ==
    /\ CanAccept
    /\ started' = started + 1
    /\ LET req == [IdleReq EXCEPT !.kind = "getFinancialSummary", !.entry = "ai",
                                  !.userId = userId, !.period = period,
                                  !.date = now,
                                  !.startDate = PeriodStart(period, now)]
       IN IF FinancialSummarySchema(period)
          THEN reqs' = reqs (+) SetToBag({[req EXCEPT !.pc = "selectPaidInvoices"]})
               /\ UNCHANGED lastResponse
          ELSE Reject("getFinancialSummary", "ai", userId, NULL, SummaryFailure)
    /\ UNCHANGED <<clients, invoices, invoiceItems, payments, expenses, now>>
    /\ UNCHANGED wfVars
    /\ UNCHANGED calcVars

\* const paidInvoices = await db.select().from(invoices).innerJoin(...)
SelectPaidInvoices(q) ==
    /\ q.pc = "selectPaidInvoices"
    /\ LET rows == PaidRows(q.userId, q.startDate, q.date)
       IN Continue(q, [q EXCEPT !.pc = "selectPeriodExpenses",
                                !.total = SumLineTotals(rows),
                                !.vatCollected = VatCollected(rows),
                                !.invoiceCount = Cardinality(rows)])
    /\ UNCHANGED <<clients, invoices, invoiceItems, payments, expenses, started, now>>
    /\ UNCHANGED wfVars
    /\ UNCHANGED calcVars

\* const periodExpenses = await db.select().from(expenses)..., the totals
\* and the success result.
SelectPeriodExpenses(q) ==
    /\ q.pc = "selectPeriodExpenses"
    /\ LET rows == PeriodExpenses(q.userId, q.startDate, q.date)
       IN FinishWith(q, "", SummarySuccess,
                     SummaryData(q.total, SumAmounts(rows), q.vatCollected,
                                 q.invoiceCount, Cardinality(rows)))
    /\ UNCHANGED <<clients, invoices, invoiceItems, payments, expenses, started, now>>
    /\ UNCHANGED wfVars
    /\ UNCHANGED calcVars

(***************************************************************************)
(* POST /api/reports and the reporting tools of the advanced AI service.   *)
(***************************************************************************)
ReportTypes == {"financial_summary", "vat_report", "profit_loss"}
AnyReportTypes == ReportTypes \cup {"balance_sheet"}

\* GenerateReportSchema
GenerateReportSchema(userId, period, reportType) ==
    /\ IsUuid(userId)
    /\ period \in {"month", "quarter", "year"}
    /\ reportType \in {"financial_summary", "vat_report", "profit_loss"}

\* margin: totalRevenue > 0 ? (netProfit / totalRevenue) * 100 : 0, kept in
\* hundredths of a percent, rounded down.
Margin(netProfit, totalRevenue) ==
    IF totalRevenue > 0 THEN (netProfit * 10000) \div totalRevenue ELSE 0

\* What generateFinancialSummary returns.
FinancialSummaryReport(totalRevenue, totalExpenses, invoiceCount, expenseCount) ==
    [totalRevenue |-> totalRevenue, invoiceCount |-> invoiceCount,
     totalExpenses |-> totalExpenses, expenseCount |-> expenseCount,
     netProfit |-> totalRevenue - totalExpenses,
     margin |-> Margin(totalRevenue - totalExpenses, totalRevenue)]

RECURSIVE SumExpenseVat(_)
SumExpenseVat(ks) ==
    IF ks = {} THEN 0
    ELSE LET k == CHOOSE x \in ks : TRUE
         IN expenses[k].vatAmount + SumExpenseVat(ks \ {k})

\* What generateVATReport returns.
VatReport(vatCollected, vatPaid, invoiceCount, expenseCount) ==
    [vatCollected |-> vatCollected, vatPaid |-> vatPaid,
     vatOwed |-> vatCollected - vatPaid,
     invoiceCount |-> invoiceCount, expenseCount |-> expenseCount]

\* getExpensesByCategory: the total of each category that occurs.
ExpensesByCategory(ks) ==
    [c \in {expenses[k].category : k \in ks} |->
        SumAmounts({k \in ks : expenses[k].category = c})]

\* What generateProfitLossReport returns.
ProfitLossReport(summary, expensesByCategory) ==
    [totalRevenue |-> summary.totalRevenue, invoiceCount |-> summary.invoiceCount,
     totalExpenses |-> summary.totalExpenses, expenseCount |-> summary.expenseCount,
     netProfit |-> summary.netProfit, margin |-> summary.margin,
     expensesByCategory |-> expensesByCategory]

ReportSuccess == Response(TRUE, 200, "")
ReportUserNotFound == Response(FALSE, 404, "User not found")
ReportInvalid == Response(FALSE, 400, "Invalid request data")
ReportFailure == Response(FALSE, 500, "Failed to generate report")

\* POST /api/reports arrives: parse the body; the first await is the lookup
\* of the user.
StartGenerateReport(userId, period, reportType) ==
    /\ CanAccept
    /\ started' = started + 1
    /\ LET req == [IdleReq EXCEPT !.kind = "report", !.entry = "api",
                                  !.userId = userId, !.period = period,
                                  !.reportType = reportType]
       IN IF GenerateReportSchema(userId, period, reportType)
          THEN reqs' = reqs (+) SetToBag({[req EXCEPT !.pc = "reportSelectUser"]})
               /\ UNCHANGED lastResponse
          ELSE Reject("report", "api", userId, NULL, ReportInvalid)
    /\ UNCHANGED <<clients, invoices, invoiceItems, payments, expenses, now>>
    /\ UNCHANGED wfVars
    /\ UNCHANGED calcVars

\* Get user, then calculate the date range from the clock.
ReportSelectUser(q) ==
    /\ q.pc = "reportSelectUser"
    /\ IF q.userId \in Users
       THEN Continue(q, [q EXCEPT !.pc = "reportSelectPaid", !.date = now,
                                  !.startDate = PeriodStart(q.period, now)])
       ELSE Finish(q, "User not found", ReportUserNotFound)
    /\ UNCHANGED <<clients, invoices, invoiceItems, payments, expenses, started, now>>
    /\ UNCHANGED wfVars
    /\ UNCHANGED calcVars

\* generateFinancialSummary / generateVATReport: select of the paid invoices.
ReportSelectPaid(q) ==
    /\ q.pc = "reportSelectPaid"
    /\ LET rows == PaidRows(q.userId, q.startDate, q.date)
       IN Continue(q, [q EXCEPT !.pc = "reportSelectExpenses",
                                !.total = SumLineTotals(rows),
                                !.vatCollected = VatCollected(rows),
                                !.invoiceCount = Cardinality(rows)])
    /\ UNCHANGED <<clients, invoices, invoiceItems, payments, expenses, started, now>>
    /\ UNCHANGED wfVars
    /\ UNCHANGED calcVars

\* The select of the expenses and the totals; the summary and the VAT report
\* are returned, the profit & loss report goes on to its breakdown.
ReportSelectExpenses(q) ==
    /\ q.pc = "reportSelectExpenses"
    /\ LET rows == PeriodExpenses(q.userId, q.startDate, q.date)
       IN CASE q.reportType = "financial_summary" ->
                 FinishWith(q, "", ReportSuccess,
                            FinancialSummaryReport(q.total, SumAmounts(rows),
                                                   q.invoiceCount, Cardinality(rows)))
            [] q.reportType = "vat_report" ->
                 FinishWith(q, "", ReportSuccess,
                            VatReport(q.vatCollected, SumExpenseVat(rows),
                                      q.invoiceCount, Cardinality(rows)))
            [] OTHER ->
                 Continue(q, [q EXCEPT !.pc = "reportSelectByCategory",
                                       !.totalExpenses = SumAmounts(rows),
                                       !.expenseCount = Cardinality(rows)])
    /\ UNCHANGED <<clients, invoices, invoiceItems, payments, expenses, started, now>>
    /\ UNCHANGED wfVars
    /\ UNCHANGED calcVars

\* getExpensesByCategory and the profit & loss report.
ReportSelectByCategory(q) ==
    /\ q.pc = "reportSelectByCategory"
    /\ LET rows == PeriodExpenses(q.userId, q.startDate, q.date)
       IN FinishWith(q, "", ReportSuccess,
                     ProfitLossReport(
                         FinancialSummaryReport(q.total, q.totalExpenses,
                                                q.invoiceCount, q.expenseCount),
                         ExpensesByCategory(rows)))
    /\ UNCHANGED <<clients, invoices, invoiceItems, payments, expenses, started, now>>
    /\ UNCHANGED wfVars
    /\ UNCHANGED calcVars

\* analyzeFinancialHealth and checkVATCompliance of the advanced service.
HealthPeriods == {"month", "quarter", "year", "all"}

\* new Date(0): earlier than every date of the ledger.
Epoch == -1000

\* The date range of analyzeFinancialHealth.
HealthPeriodStart(period, t) ==
    IF period = "all" THEN Epoch ELSE PeriodStart(period, t)

\* The paid invoices the advanced service selects: gte(invoices.paidAt,
\* startDate) is the only bound.
PaidRowsSince(userId, startDate) ==
    {k \in DOMAIN invoiceItems :
        LET i == invoiceItems[k].invoiceId
        IN /\ i \in DOMAIN invoices
           /\ invoices[i].userId = userId
           /\ invoices[i].status = "PAID"
           /\ invoices[i].paidAt # NULL
           /\ invoices[i].paidAt >= startDate}

\* The expenses the advanced service selects: gte(expenses.date, startDate)
\* is the only bound.
ExpensesSince(userId, startDate) ==
    {k \in DOMAIN expenses :
        /\ expenses[k].userId = userId
        /\ expenses[k].date >= startDate}

\* What checkVATCompliance returns.
VatCompliance(vatCollected, vatPaid) ==
    [vatCollected |-> vatCollected, vatPaid |-> vatPaid,
     vatOwed |-> IF vatCollected >= vatPaid THEN vatCollected - vatPaid
                 ELSE vatPaid - vatCollected,
     isCompliant |-> vatCollected - vatPaid >= 0]

ToolSuccess == Response(TRUE, 0, "")
ToolInvalid == Response(FALSE, 0, "Invalid tool arguments")
HealthUserNotFound ==
    Response(TRUE, 0, "User not found. Please create some financial data first.")

\* The model calls analyzeFinancialHealth: the arguments are validated, the
\* first await is the lookup of the user.
StartAnalyzeFinancialHealth(userId, period) ==
    /\ CanAccept
    /\ started' = started + 1
    /\ LET req == [IdleReq EXCEPT !.kind = "analyzeFinancialHealth", !.entry = "tool",
                                  !.userId = userId, !.period = period]
       IN IF period \in HealthPeriods
          THEN reqs' = reqs (+) SetToBag({[req EXCEPT !.pc = "healthSelectUser"]})
               /\ UNCHANGED lastResponse
          ELSE Reject("analyzeFinancialHealth", "tool", userId, NULL, ToolInvalid)
    /\ UNCHANGED <<clients, invoices, invoiceItems, payments, expenses, now>>
    /\ UNCHANGED wfVars
    /\ UNCHANGED calcVars

HealthSelectUser(q) ==
    /\ q.pc = "healthSelectUser"
    /\ IF q.userId \in Users
       THEN Continue(q, [q EXCEPT !.pc = "healthSelectPaid", !.date = now,
                                  !.startDate = HealthPeriodStart(q.period, now)])
       ELSE Finish(q, "", HealthUserNotFound)
    /\ UNCHANGED <<clients, invoices, invoiceItems, payments, expenses, started, now>>
    /\ UNCHANGED wfVars
    /\ UNCHANGED calcVars

HealthSelectPaid(q) ==
    /\ q.pc = "healthSelectPaid"
    /\ LET rows == PaidRowsSince(q.userId, q.startDate)
       IN Continue(q, [q EXCEPT !.pc = "healthSelectExpenses",
                                !.total = SumLineTotals(rows),
                                !.invoiceCount = Cardinality(rows)])
    /\ UNCHANGED <<clients, invoices, invoiceItems, payments, expenses, started, now>>
    /\ UNCHANGED wfVars
    /\ UNCHANGED calcVars

\* The select of the expenses, the totals and the margin.
HealthSelectExpenses(q) ==
    /\ q.pc = "healthSelectExpenses"
    /\ LET rows == ExpensesSince(q.userId, q.startDate)
       IN FinishWith(q, "", ToolSuccess,
                     FinancialSummaryReport(q.total, SumAmounts(rows),
                                            q.invoiceCount, Cardinality(rows)))
    /\ UNCHANGED <<clients, invoices, invoiceItems, payments, expenses, started, now>>
    /\ UNCHANGED wfVars
    /\ UNCHANGED calcVars

\* The model calls checkVATCompliance: it reads the clock; its first await
\* is the select of the paid invoices.
StartCheckVATCompliance(userId, period) ==
    /\ CanAccept
    /\ started' = started + 1
    /\ LET req == [IdleReq EXCEPT !.kind = "checkVATCompliance", !.entry = "tool",
                                  !.userId = userId, !.period = period,
                                  !.date = now,
                                  !.startDate = PeriodStart(period, now)]
       IN IF period \in {"month", "quarter", "year"}
          THEN reqs' = reqs (+) SetToBag({[req EXCEPT !.pc = "vatSelectPaid"]})
               /\ UNCHANGED lastResponse
          ELSE Reject("checkVATCompliance", "tool", userId, NULL, ToolInvalid)
    /\ UNCHANGED <<clients, invoices, invoiceItems, payments, expenses, now>>
    /\ UNCHANGED wfVars
    /\ UNCHANGED calcVars

VatSelectPaid(q) ==
    /\ q.pc = "vatSelectPaid"
    /\ LET rows == PaidRowsSince(q.userId, q.startDate)
       IN Continue(q, [q EXCEPT !.pc = "vatSelectExpenses",
                                !.vatCollected = VatCollected(rows),
                                !.invoiceCount = Cardinality(rows)])
    /\ UNCHANGED <<clients, invoices, invoiceItems, payments, expenses, started, now>>
    /\ UNCHANGED wfVars
    /\ UNCHANGED calcVars

VatSelectExpenses(q) ==
    /\ q.pc = "vatSelectExpenses"
    /\ LET rows == ExpensesSince(q.userId, q.startDate)
       IN FinishWith(q, "", ToolSuccess,
                     VatCompliance(q.vatCollected, SumExpenseVat(rows)))
    /\ UNCHANGED <<clients, invoices, invoiceItems, payments, expenses, started, now>>
    /\ UNCHANGED wfVars
    /\ UNCHANGED calcVars

(***************************************************************************)
(* POST /api/ai/chat and AIService.processQuery.                           *)
(***************************************************************************)
Messages == {"Create invoice for R500 for ABC Company"}
AnyMessages == Messages \cup {""}

\* ChatRequestSchema
ChatRequestSchema(message, userId) ==
    /\ Len(message) >= 1
    /\ Len(message) <= 1000
    /\ IsUuid(userId)

\* parameters: z.record(z.any()). {} is the function with no key.
EmptyParameters == <<>>

CreateInvoiceParameters ==
    {[clientName |-> c, amount |-> a, description |-> d, dueInDays |-> due,
      vatIncluded |-> v] :
        c \in ClientNames, a \in AnyAmounts, d \in Descriptions, due \in DueInDays,
        v \in BOOLEAN}

LogExpenseParameters ==
    {[amount |-> a, description |-> d, category |-> c] :
        a \in ExpenseAmounts, d \in Descriptions, c \in Categories}

SummaryParameters == {[period |-> p] : p \in {"month", "week"}}

\* The objects generateObject may resolve with: the schema fixes the types
\* only, so any intent string and any parameters.
Intents ==
    {"INVOICE_CREATE", "EXPENSE_LOG", "FINANCIAL_SUMMARY", "INVOICE_LIST", "HELP", "GREETING"}

AiResult(intent, confidence, parameters, response) ==
    [intent |-> intent, confidence |-> confidence, parameters |-> parameters,
     response |-> response]

ModelObjects ==
    {AiResult("INVOICE_CREATE", 90, p, "Creating your invoice") :
        p \in CreateInvoiceParameters \cup {EmptyParameters}}
    \cup {AiResult("EXPENSE_LOG", 90, p, "Logging your expense") : p \in LogExpenseParameters}
    \cup {AiResult("FINANCIAL_SUMMARY", 90, p, "Here is your summary") : p \in SummaryParameters}
    \cup {AiResult(i, 50, EmptyParameters, "Hello") : i \in {"INVOICE_LIST", "HELP", "GREETING"}}

ModelCallError == "AI_APICallError"

\* Mutant: the catch of processQuery answers with an intent that acts.
FallbackResultActs ==
    AiResult("INVOICE_CREATE", 0, EmptyParameters,
             "I had trouble understanding your request. Please try again.")

\* What the catch of processQuery returns.
FallbackResult ==
    AiResult("HELP", 0, EmptyParameters,
             "I had trouble understanding your request. Please try again.")

\* What the route answers, with the result of processQuery it acted on.
ChatData(aiResult, message) ==
    [aiResult |-> aiResult, intent |-> aiResult.intent,
     confidence |-> aiResult.confidence, message |-> message]

ChatSuccess == Response(TRUE, 200, "")
ChatInvalid == Response(FALSE, 400, "Invalid request data")

\* parse() of a handler of the AI service on the parameters of the model:
\* a required key that is missing is a ZodError.
HasKeys(p, keys) == keys \subseteq DOMAIN p

CreateInvoiceParses(p) ==
    /\ HasKeys(p, {"clientName", "amount", "description"})
    /\ AiCreateInvoiceSchema(p.clientName, p.amount, p.description, p.dueInDays)

LogExpenseParses(p) ==
    /\ HasKeys(p, {"amount", "description", "category"})
    /\ LogExpenseSchema(p.amount, p.description, p.category)

SummaryParses(p) == HasKeys(p, {"period"}) /\ FinancialSummarySchema(p.period)

\* POST /api/ai/chat arrives: parse the body; the first await is
\* aiService.processQuery, which awaits generateObject.
StartChat(userId, message) ==
    /\ CanAccept
    /\ started' = started + 1
    /\ LET req == [IdleReq EXCEPT !.kind = "chat", !.entry = "chat",
                                  !.userId = userId, !.description = message]
       IN IF ChatRequestSchema(message, userId)
          THEN reqs' = reqs (+) SetToBag({[req EXCEPT !.pc = "processQuery"]})
               /\ UNCHANGED lastResponse
          ELSE Reject("chat", "chat", userId, NULL, ChatInvalid)
    /\ UNCHANGED <<clients, invoices, invoiceItems, payments, expenses, now>>
    /\ UNCHANGED wfVars
    /\ UNCHANGED calcVars

\* processQuery returned aiResult (err is what its catch caught, if
\* anything): the switch on the intent. A handler of the AI service is
\* entered up to its first await; its result is what the route sends back.
HandleIntent(q, aiResult, err) ==
    LET p == aiResult.parameters
    IN CASE aiResult.intent = "INVOICE_CREATE" ->
              IF CreateInvoiceParses(p)
              THEN Continue(q, [q EXCEPT !.kind = "createInvoice", !.entry = "ai",
                                         !.pc = "selectUser",
                                         !.clientName = p.clientName,
                                         !.amount = p.amount,
                                         !.description = p.description,
                                         !.dueInDays = p.dueInDays,
                                         !.vatIncluded = p.vatIncluded])
              ELSE FinishWith(q, err, CreateInvalid("ai"),
                              ChatData(aiResult, CreateInvalid("ai").message))
         [] aiResult.intent = "EXPENSE_LOG" ->
              IF LogExpenseParses(p)
              THEN Continue(q, [q EXCEPT !.kind = "logExpense", !.entry = "ai",
                                         !.pc = "insertExpense",
                                         !.amount = p.amount,
                                         !.description = p.description,
                                         !.category = p.category,
                                         !.date = ExpenseDate(NULL, now)])
              ELSE FinishWith(q, err, LogExpenseFailure,
                              ChatData(aiResult, LogExpenseFailure.message))
         [] aiResult.intent = "FINANCIAL_SUMMARY" ->
              IF SummaryParses(p)
              THEN Continue(q, [q EXCEPT !.kind = "getFinancialSummary", !.entry = "ai",
                                         !.pc = "selectPaidInvoices",
                                         !.period = p.period, !.date = now,
                                         !.startDate = PeriodStart(p.period, now)])
              ELSE FinishWith(q, err, SummaryFailure,
                              ChatData(aiResult, SummaryFailure.message))
         [] aiResult.intent = "INVOICE_LIST" ->
              FinishWith(q, err, ChatSuccess,
                         ChatData(aiResult, "Invoice listing feature coming soon!"))
         [] aiResult.intent = "HELP" ->
              FinishWith(q, err, ChatSuccess,
                         ChatData(aiResult, "EquiLedger AI Financial Assistant"))
         [] OTHER ->
              FinishWith(q, err, ChatSuccess, ChatData(aiResult, aiResult.response))

\* generateObject resolved with an object of the schema.
ModelCallReturns(q, object) ==
    /\ q.pc = "processQuery"
    /\ HandleIntent(q, object, "")
    /\ UNCHANGED <<clients, invoices, invoiceItems, payments, expenses, started, now>>
    /\ UNCHANGED wfVars
    /\ UNCHANGED calcVars

\* generateObject rejected (the API call failed, or the answer did not
\* match the schema): the catch of processQuery returns its fallback.
ModelCallFails(q) ==
    /\ q.pc = "processQuery"
    /\ HandleIntent(q, FallbackResult, ModelCallError)
    /\ UNCHANGED <<clients, invoices, invoiceItems, payments, expenses, started, now>>
    /\ UNCHANGED wfVars
    /\ UNCHANGED calcVars

\* Any repository call may throw instead (connection lost, timeout); the
\* handler's catch turns it into its failure response.
DbCallPcs ==
    {"selectUser", "selectClient", "insertClient", "countInvoices", "insertInvoice",
     "insertItem", "selectInvoice", "selectItems", "updateInvoice", "insertPayment",
     "insertExpense", "selectPaidInvoices", "selectPeriodExpenses",
     "reportSelectUser", "reportSelectPaid", "reportSelectExpenses",
     "reportSelectByCategory", "healthSelectUser", "healthSelectPaid",
     "healthSelectExpenses", "vatSelectPaid", "vatSelectExpenses",
     "stepSelectPaid"}

DbFail(q) ==
    /\ q.pc \in DbCallPcs
    /\ Finish(q, ConnectionError,
              CASE q.kind = "markPaid" -> MarkPaidFailure
                [] q.kind = "logExpense" -> ExpenseFailure(q.entry, ConnectionError)
                [] q.kind = "getFinancialSummary" -> SummaryFailure
                [] q.kind = "report" -> ReportFailure
                [] q.kind = "generateReportStep" -> Response(FALSE, 0, ConnectionError)
                [] q.entry = "tool" -> Response(FALSE, 0, ConnectionError)
                [] OTHER -> CreateFailure(q.entry, ConnectionError))
    /\ UNCHANGED <<clients, invoices, invoiceItems, payments, started, now>>
    /\ UNCHANGED expenses
    /\ UNCHANGED wfVars
    /\ UNCHANGED calcVars

\* Time passes. Only new Date() observes the clock, so it is enough to let
\* it advance while some request is about to read it.
ClockReadPcs == {"updateInvoice", "insertPayment", "reportSelectUser", "healthSelectUser"}

Tick ==
    /\ now <= MaxTime
    /\ \E q \in InFlight : q.pc \in ClockReadPcs
    /\ now' = now + 1
    /\ UNCHANGED <<clients, invoices, invoiceItems, payments, reqs, lastResponse, started>>
    /\ UNCHANGED expenses
    /\ UNCHANGED wfVars
    /\ UNCHANGED calcVars

LedgerInit ==
    /\ clients = <<>>
    /\ invoices = <<>>
    /\ invoiceItems = <<>>
    /\ payments = <<>>
    /\ expenses = <<>>
    /\ reqs = EmptyBag
    /\ lastResponse = [kind |-> "none", entry |-> "none", userId |-> "",
                       invoiceId |-> NULL, invoiceNumber |-> <<>>,
                       error |-> "", response |-> NoResponse, data |-> NoData]
    /\ started = 0
    /\ now = 1

LedgerNext ==
    \/ \E e \in Entries, u \in UserIds, c \in ClientNames, a \in Amounts,
          d \in Descriptions, due \in DueInDays, v \in BOOLEAN :
            /\ (e # "ai" => v)
            /\ StartCreateInvoice(e, u, c, a, d, due, v)
    \/ \E q \in InFlight : SelectUser(q)
    \/ \E q \in InFlight : SelectClient(q)
    \/ \E q \in InFlight : InsertClient(q)
    \/ \E q \in InFlight : CountInvoices(q)
    \/ \E q \in InFlight : InsertInvoice(q)
    \/ \E q \in InFlight : InsertItem(q)
    \/ \E u \in BodyUserIds, i \in 1..(Len(invoices) + 1) : StartMarkPaid(u, i)
    \/ \E q \in InFlight : MarkPaidSelectInvoice(q)
    \/ \E q \in InFlight : MarkPaidSelectItems(q)
    \/ \E q \in InFlight : MarkPaidUpdate(q)
    \/ \E q \in InFlight : MarkPaidInsertPayment(q)
    \/ \E q \in InFlight : DbFail(q)
    \/ Tick

\* The ledger once one CreateInvoice request has completed on the empty
\* ledger: its client, its invoice (DRAFT) and its line item.
InvoicedLedger ==
    \E e \in Entries, u \in Users, c \in ClientNames, a \in Amounts,
       d \in Descriptions, v \in BOOLEAN :
        /\ (e # "ai" => v)
        /\ clients = <<[userId |-> u, name |-> c]>>
        /\ invoices = <<[userId |-> u, clientId |-> 1, invoiceNumber |-> InvoiceNumber(0),
                         vatIncluded |-> v, vatRate |-> VatRatePct,
                         status |-> "DRAFT", paidAt |-> NULL]>>
        /\ invoiceItems = <<[invoiceId |-> 1, description |-> d, quantity |-> 1,
                             lineTotal |-> Subtotal(a, v)]>>
        /\ payments = <<>>
        /\ expenses = <<>>
        /\ reqs = EmptyBag
        /\ lastResponse = [kind |-> "createInvoice", entry |-> e, userId |-> u,
                           invoiceId |-> 1, invoiceNumber |-> InvoiceNumber(0),
                           error |-> "", response |-> CreateSuccess(e),
                           data |-> NoData]
        /\ started = 0
        /\ now = 1

\* No workflow is running.
WorkflowIdle ==
    /\ steps = <<>>
    /\ currentStep = 0
    /\ results = <<>>
    /\ errors = <<>>
    /\ retryCount = 0
    /\ wfPc = "none"
    /\ inFlight = 0
    /\ attempts = <<>>
    /\ delays = <<>>
    /\ ret = [success |-> FALSE, results |-> <<>>, errors |-> <<>>, completedSteps |-> 0]

\* The VAT split seen on its own: the amount (in cents) and the rate (in
\* percent) given, then the three amounts as createInvoice reports them.
SplitAmounts == 1..MaxAmount
SplitRates == 1..99

IdleSplit ==
    [pc |-> "idle", amount |-> 0, vatIncluded |-> TRUE, rate |-> 0,
     subtotal |-> 0, vatAmount |-> 0, total |-> 0]

NoSplit == split = IdleSplit

SplitInput ==
    \E a \in SplitAmounts, r \in SplitRates, v \in BOOLEAN :
        split = [IdleSplit EXCEPT !.pc = "input", !.amount = a,
                                  !.vatIncluded = v, !.rate = r]

\* Calculate amounts, and the amounts of the success result.
CalculateAmounts ==
    /\ split.pc = "input"
    /\ \E s \in SubtotalAt(split.amount, split.vatIncluded, split.rate),
          va \in VatAmountAt(split.amount, split.vatIncluded, split.rate),
          tot \in TotalAt(split.amount, split.vatIncluded, split.rate) :
            split' = [split EXCEPT !.pc = "done", !.subtotal = s,
                                   !.vatAmount = va, !.total = tot]
    /\ UNCHANGED ledgerVars
    /\ UNCHANGED wfVars

SplitInit == LedgerInit /\ WorkflowIdle /\ SplitInput
SplitNext == CalculateAmounts
SplitSpec == SplitInit /\ [][SplitNext]_vars

Init == LedgerInit /\ WorkflowIdle /\ NoSplit
Next == LedgerNext
Spec == Init /\ [][Next]_vars

\* Requests against a ledger that already holds one invoice.
InvoicedInit == InvoicedLedger /\ WorkflowIdle /\ NoSplit
MarkPaidSpec == InvoicedInit /\ [][Next]_vars

\* Requests of one user handled one at a time, on a repository that does
\* not fail: a request of user u arrives only when no request of u is in
\* flight. Requests of different users still interleave.
UserBusy(u) == \E q \in InFlight : q.userId = u

SequentialNext ==
    \/ \E e \in Entries, u \in UserIds, c \in ClientNames, a \in Amounts,
          d \in Descriptions, due \in DueInDays, v \in BOOLEAN :
            /\ (e # "ai" => v)
            /\ ~UserBusy(u)
            /\ StartCreateInvoice(e, u, c, a, d, due, v)
    \/ \E q \in InFlight : SelectUser(q)
    \/ \E q \in InFlight : SelectClient(q)
    \/ \E q \in InFlight : InsertClient(q)
    \/ \E q \in InFlight : CountInvoices(q)
    \/ \E q \in InFlight : InsertInvoice(q)
    \/ \E q \in InFlight : InsertItem(q)
    \/ \E u \in BodyUserIds, i \in 1..(Len(invoices) + 1) :
            /\ ~UserBusy(u)
            /\ StartMarkPaid(u, i)
    \/ \E q \in InFlight : MarkPaidSelectInvoice(q)
    \/ \E q \in InFlight : MarkPaidSelectItems(q)
    \/ \E q \in InFlight : MarkPaidUpdate(q)
    \/ \E q \in InFlight : MarkPaidInsertPayment(q)
    \/ Tick

SequentialSpec == Init /\ [][SequentialNext]_vars

\* CreateInvoice called with arbitrary parameters, valid or not.
ValidationNext ==
    \/ \E e \in Entries, u \in BodyUserIds, c \in AnyClientNames, a \in AnyAmounts,
          d \in AnyDescriptions, due \in AnyDueInDays, v \in BOOLEAN :
            /\ (e # "ai" => v)
            /\ StartCreateInvoice(e, u, c, a, d, due, v)
    \/ \E q \in InFlight : SelectUser(q)
    \/ \E q \in InFlight : SelectClient(q)
    \/ \E q \in InFlight : InsertClient(q)
    \/ \E q \in InFlight : CountInvoices(q)
    \/ \E q \in InFlight : InsertInvoice(q)
    \/ \E q \in InFlight : InsertItem(q)

ValidationSpec == Init /\ [][ValidationNext]_vars

\* The handlers of the AI service, called with arbitrary parameters.
AiServiceNext ==
    \/ \E u \in UserIds, c \in AnyClientNames, a \in AnyAmounts,
          d \in AnyDescriptions, due \in AnyDueInDays, v \in BOOLEAN :
            StartCreateInvoice("ai", u, c, a, d, due, v)
    \/ \E q \in InFlight : SelectUser(q)
    \/ \E q \in InFlight : SelectClient(q)
    \/ \E q \in InFlight : InsertClient(q)
    \/ \E q \in InFlight : CountInvoices(q)
    \/ \E q \in InFlight : InsertInvoice(q)
    \/ \E q \in InFlight : InsertItem(q)
    \/ \E u \in UserIds, a \in AnyExpenseAmounts, d \in Descriptions,
          c \in Categories, t \in DateInputs :
            StartLogExpense(u, a, d, c, t)
    \/ \E q \in InFlight : InsertExpense(q)
    \/ \E u \in UserIds, p \in AnyPeriods : StartGetFinancialSummary(u, p)
    \/ \E q \in InFlight : SelectPaidInvoices(q)
    \/ \E q \in InFlight : SelectPeriodExpenses(q)
    \/ \E q \in InFlight : DbFail(q)

AiServiceSpec == Init /\ [][AiServiceNext]_vars

\* The ledger once a CreateInvoice request and a logExpense request have
\* completed on the empty ledger: a DRAFT invoice with its line item, and
\* an expense dated this month or the next.
BookedLedger ==
    \E e \in Entries, u \in Users, c \in ClientNames, a \in Amounts,
       d \in Descriptions, v \in BOOLEAN, x \in Users, xa \in ExpenseAmounts,
       cat \in Categories, t \in 1..(MaxTime + 1) :
        /\ (e # "ai" => v)
        /\ clients = <<[userId |-> u, name |-> c]>>
        /\ invoices = <<[userId |-> u, clientId |-> 1, invoiceNumber |-> InvoiceNumber(0),
                         vatIncluded |-> v, vatRate |-> VatRatePct,
                         status |-> "DRAFT", paidAt |-> NULL]>>
        /\ invoiceItems = <<[invoiceId |-> 1, description |-> d, quantity |-> 1,
                             lineTotal |-> Subtotal(a, v)]>>
        /\ payments = <<>>
        /\ expenses = <<[userId |-> x, description |-> d, amount |-> xa,
                         category |-> cat, date |-> t,
                         vatAmount |-> ExpenseVat(xa)]>>
        /\ reqs = EmptyBag
        /\ lastResponse = [kind |-> "logExpense", entry |-> "ai", userId |-> x,
                           invoiceId |-> NULL, invoiceNumber |-> <<>>,
                           error |-> "", response |-> LogExpenseSuccess,
                           data |-> NoData]
        /\ started = 0
        /\ now = 1

BookedInit == BookedLedger /\ WorkflowIdle /\ NoSplit

\* Payments, expenses and reports on a ledger that holds an invoice and an
\* expense.
ReportNext ==
    \/ \E u \in UserIds, i \in 1..Len(invoices) : StartMarkPaid(u, i)
    \/ \E q \in InFlight : MarkPaidSelectInvoice(q)
    \/ \E q \in InFlight : MarkPaidSelectItems(q)
    \/ \E q \in InFlight : MarkPaidUpdate(q)
    \/ \E q \in InFlight : MarkPaidInsertPayment(q)
    \/ \E u \in Users, a \in ExpenseAmounts, d \in Descriptions,
          c \in Categories, t \in {NULL} \cup (1..(MaxTime + 1)) :
            StartLogExpense(u, a, d, c, t)
    \/ \E q \in InFlight : InsertExpense(q)
    \/ \E u \in UserIds, p \in Periods : StartGetFinancialSummary(u, p)
    \/ \E q \in InFlight : SelectPaidInvoices(q)
    \/ \E q \in InFlight : SelectPeriodExpenses(q)
    \/ \E u \in UserIds, p \in Periods, r \in AnyReportTypes : StartGenerateReport(u, p, r)
    \/ \E q \in InFlight : ReportSelectUser(q)
    \/ \E q \in InFlight : ReportSelectPaid(q)
    \/ \E q \in InFlight : ReportSelectExpenses(q)
    \/ \E q \in InFlight : ReportSelectByCategory(q)
    \/ \E u \in UserIds, p \in HealthPeriods : StartAnalyzeFinancialHealth(u, p)
    \/ \E q \in InFlight : HealthSelectUser(q)
    \/ \E q \in InFlight : HealthSelectPaid(q)
    \/ \E q \in InFlight : HealthSelectExpenses(q)
    \/ \E u \in UserIds, p \in Periods : StartCheckVATCompliance(u, p)
    \/ \E q \in InFlight : VatSelectPaid(q)
    \/ \E q \in InFlight : VatSelectExpenses(q)
    \/ \E q \in InFlight : DbFail(q)
    \/ Tick

ReportSpec == BookedInit /\ [][ReportNext]_vars

\* The chat route, with the handlers of the AI service it calls.
ChatHandlerNext ==
    \/ \E q \in InFlight : SelectUser(q)
    \/ \E q \in InFlight : SelectClient(q)
    \/ \E q \in InFlight : InsertClient(q)
    \/ \E q \in InFlight : CountInvoices(q)
    \/ \E q \in InFlight : InsertInvoice(q)
    \/ \E q \in InFlight : InsertItem(q)
    \/ \E q \in InFlight : InsertExpense(q)
    \/ \E q \in InFlight : SelectPaidInvoices(q)
    \/ \E q \in InFlight : SelectPeriodExpenses(q)
    \/ \E q \in InFlight : DbFail(q)

ChatNext ==
    \/ \E u \in BodyUserIds, msg \in AnyMessages : StartChat(u, msg)
    \/ \E q \in InFlight, object \in ModelObjects : ModelCallReturns(q, object)
    \/ \E q \in InFlight : ModelCallFails(q)
    \/ ChatHandlerNext

ChatSpec == Init /\ [][ChatNext]_vars

\* The event loop runs every continuation that is ready, and the
\* repository answers every call. Nothing makes the model answer.
ChatFairSpec == ChatSpec /\ WF_vars(ChatHandlerNext)

(***************************************************************************)
(* WorkflowEngine.execute(). Strings the engine inspects are sequences of  *)
(* characters, so that toLowerCase() and includes() are computed.          *)
(***************************************************************************)
StepTypes == {"create_invoice", "log_expense", "generate_report"}

UpperChars == <<"A", "B", "C", "D", "E", "F", "G", "H", "I", "J", "K", "L", "M",
                "N", "O", "P", "Q", "R", "S", "T", "U", "V", "W", "X", "Y", "Z">>
LowerChars == <<"a", "b", "c", "d", "e", "f", "g", "h", "i", "j", "k", "l", "m",
                "n", "o", "p", "q", "r", "s", "t", "u", "v", "w", "x", "y", "z">>

LowerChar(c) ==
    IF \E i \in DOMAIN UpperChars : UpperChars[i] = c
    THEN LowerChars[CHOOSE i \in DOMAIN UpperChars : UpperChars[i] = c]
    ELSE c

\* String.prototype.toLowerCase
ToLowerCase(str) == [i \in DOMAIN str |-> LowerChar(str[i])]

\* String.prototype.includes
Includes(str, pat) ==
    \E i \in 0..(Len(str) - Len(pat)) : SubSeq(str, i + 1, i + Len(pat)) = pat

PatTimeout == <<"t", "i", "m", "e", "o", "u", "t">>
PatNetwork == <<"n", "e", "t", "w", "o", "r", "k">>
PatConnection == <<"c", "o", "n", "n", "e", "c", "t", "i", "o", "n">>
PatRateLimit == <<"r", "a", "t", "e", " ", "l", "i", "m", "i", "t">>

\* What a step may throw: Error objects with these messages, or a value
\* that is no Error.
MsgTimeout == <<"Q", "u", "e", "r", "y", " ", "T", "i", "m", "e", "o", "u", "t">>
MsgConnection == <<"C", "o", "n", "n", "e", "c", "t", "i", "o", "n", " ", "l", "o", "s", "t">>
MsgReset == <<"E", "C", "O", "N", "N", "R", "E", "S", "E", "T">>
MsgUserNotFound == <<"U", "s", "e", "r", " ", "n", "o", "t", " ", "f", "o", "u", "n", "d">>
MsgUnknown == <<"U", "n", "k", "n", "o", "w", "n", " ", "e", "r", "r", "o", "r">>

Thrown ==
    {[isError |-> TRUE, message |-> m] :
        m \in {MsgTimeout, MsgConnection, MsgReset, MsgUserNotFound}}
    \cup {[isError |-> FALSE, message |-> PatTimeout]}

\* const errorMessage = error instanceof Error ? error.message : 'Unknown error'
ErrorMessage(e) == IF e.isError THEN e.message ELSE MsgUnknown

\* private isRetriableError(error)
IsRetriableError(e) ==
    IF e.isError
    THEN LET message == ToLowerCase(e.message)
         IN \/ Includes(message, PatTimeout)
            \/ Includes(message, PatNetwork)
            \/ Includes(message, PatConnection)
            \/ Includes(message, PatRateLimit)
    ELSE FALSE

maxRetries == 3
BaseDelayMs == 1000

\* Mutant: the retry bound is off by one.
LoopConditionOffByOne(cs, rc) == cs < Len(steps) /\ rc <= maxRetries

\* while (currentStep < steps.length && retryCount < maxRetries)
LoopCondition(cs, rc) == cs < Len(steps) /\ rc < maxRetries

\* Mutant: a success advances past the next step.
NextStepSkips(cs) == cs + 2

\* this.context.currentStep++
NextStep(cs) == cs + 1

\* Mutant: a failed attempt is not counted.
RetryCountStuck(rc) == rc

\* retryCount++
NextRetryCount(rc) == rc + 1

\* Mutant: the retry count survives a success.
RetryCountKept(rc) == rc

\* retryCount = 0; // Reset retry count on success
RetryCountAfterSuccess(rc) == 0

\* await this.delay(1000 * retryCount)
BackoffDelay(rc) == BaseDelayMs * rc

\* Object assignment obj[key] = value.
Put(map, key, value) == (key :> value) @@ map

\* The outcome of the invocation in flight replaces its "running" mark.
Settle(outcome) ==
    [attempts EXCEPT ![currentStep] =
        [@ EXCEPT ![Len(@)] = outcome]]

\* The value execute() returns.
ReturnValue(cs, res, errs) ==
    [success |-> cs = Len(steps), results |-> res, errors |-> errs,
     completedSteps |-> cs]

\* The loop condition holds: const result = await this.executeStep(step)
InvokeStep ==
    /\ wfPc = "loop"
    /\ LoopCondition(currentStep, retryCount)
    /\ wfPc' = "running"
    /\ inFlight' = inFlight + 1
    /\ attempts' = [attempts EXCEPT ![currentStep] =
                        IF Len(@) < MaxCalls THEN Append(@, "running") ELSE @]
    /\ UNCHANGED <<steps, currentStep, results, errors, retryCount, delays, ret>>
    /\ UNCHANGED ledgerVars
    /\ UNCHANGED calcVars

\* The loop condition fails: return.
Return ==
    /\ wfPc = "loop"
    /\ ~LoopCondition(currentStep, retryCount)
    /\ wfPc' = "done"
    /\ ret' = ReturnValue(currentStep, results, errors)
    /\ UNCHANGED <<steps, currentStep, results, errors, retryCount, inFlight,
                   attempts, delays>>
    /\ UNCHANGED ledgerVars
    /\ UNCHANGED calcVars

\* executeStep resolved: record the result, advance, reset the retry count.
StepSucceeds ==
    /\ wfPc = "running"
    /\ results' = Put(results, currentStep, steps[currentStep + 1])
    /\ currentStep' = NextStep(currentStep)
    /\ retryCount' = RetryCountAfterSuccess(retryCount)
    /\ inFlight' = inFlight - 1
    /\ attempts' = Settle("ok")
    /\ delays' = <<>>
    /\ wfPc' = "loop"
    /\ UNCHANGED <<steps, errors, ret>>
    /\ UNCHANGED ledgerVars
    /\ UNCHANGED calcVars

\* Mutant: the catch block has no break; after a fatal error the loop
\* goes on to its next iteration.
StepThrowsNoBreak(e) ==
    /\ wfPc = "running"
    /\ errors' = Put(errors, currentStep, ErrorMessage(e))
    /\ inFlight' = inFlight - 1
    /\ IF IsRetriableError(e)
       THEN /\ retryCount' = NextRetryCount(retryCount)
            /\ attempts' = Settle("retriable")
            /\ delays' = IF Len(delays) < MaxCalls
                         THEN Append(delays, BackoffDelay(retryCount'))
                         ELSE delays
            /\ wfPc' = "delay"
       ELSE /\ attempts' = Settle("fatal")
            /\ wfPc' = "loop"
            /\ UNCHANGED <<retryCount, delays>>
    /\ UNCHANGED <<steps, currentStep, results, ret>>
    /\ UNCHANGED ledgerVars
    /\ UNCHANGED calcVars

\* executeStep rejected with e: record the message; a retriable error
\* counts a retry and waits, any other breaks out of the loop and returns.
StepThrows(e) ==
    /\ wfPc = "running"
    /\ errors' = Put(errors, currentStep, ErrorMessage(e))
    /\ inFlight' = inFlight - 1
    /\ IF IsRetriableError(e)
       THEN /\ retryCount' = NextRetryCount(retryCount)
            /\ attempts' = Settle("retriable")
            /\ delays' = IF Len(delays) < MaxCalls
                         THEN Append(delays, BackoffDelay(retryCount'))
                         ELSE delays
            /\ wfPc' = "delay"
            /\ UNCHANGED ret
       ELSE /\ attempts' = Settle("fatal")
            /\ wfPc' = "done"
            /\ ret' = ReturnValue(currentStep, results, errors')
            /\ UNCHANGED <<retryCount, delays>>
    /\ UNCHANGED <<steps, currentStep, results>>
    /\ UNCHANGED ledgerVars
    /\ UNCHANGED calcVars

\* The backoff timer fires.
DelayElapsed ==
    /\ wfPc = "delay"
    /\ wfPc' = "loop"
    /\ UNCHANGED <<steps, currentStep, results, errors, retryCount, inFlight,
                   attempts, delays, ret>>
    /\ UNCHANGED ledgerVars
    /\ UNCHANGED calcVars

\* new WorkflowEngine(userId, steps), then execute() up to its loop.
StepLists == UNION {[1..n -> StepTypes] : n \in 0..MaxSteps}

WorkflowInit ==
    /\ steps \in StepLists
    /\ currentStep = 0
    /\ results = <<>>
    /\ errors = <<>>
    /\ retryCount = 0
    /\ wfPc = "loop"
    /\ inFlight = 0
    /\ attempts = [i \in 0..(Len(steps) - 1) |-> <<>>]
    /\ delays = <<>>
    /\ ret = [success |-> FALSE, results |-> <<>>, errors |-> <<>>, completedSteps |-> 0]

WorkflowNext ==
    \/ InvokeStep
    \/ Return
    \/ StepSucceeds
    \/ \E e \in Thrown : StepThrows(e)
    \/ DelayElapsed

WorkflowSpecInit == LedgerInit /\ WorkflowInit /\ NoSplit
WorkflowSpec == WorkflowSpecInit /\ [][WorkflowNext]_vars

\* The event loop runs every continuation that is ready: a settled step,
\* an elapsed timer, the next loop iteration.
WorkflowFairSpec == WorkflowSpec /\ WF_vars(WorkflowNext)

(***************************************************************************)
(* The steps the engine executes, run against the ledger.                  *)
(***************************************************************************)
\* The parameters of the steps of the workflow.
StepUser == "u1"
StepClient == "ABC Company"
StepAmount == 50000
StepDescription == "Consulting"
StepExpenseAmount == 45000
StepCategory == "transport"
StepPeriod == "month"
StepReportType == "financial_summary"

\* The activation executeStep(step) starts: the step is parsed by its
\* schema, which accepts these parameters.
StepRequest(type) ==
    CASE type = "create_invoice" ->
            [IdleReq EXCEPT !.kind = "createInvoice", !.entry = "wf",
                            !.pc = "selectUser", !.userId = StepUser,
                            !.clientName = StepClient, !.amount = StepAmount,
                            !.description = StepDescription, !.dueInDays = 30,
                            !.vatIncluded = TRUE]
      [] type = "log_expense" ->
            [IdleReq EXCEPT !.kind = "logExpense", !.entry = "wf",
                            !.pc = "insertExpense", !.userId = StepUser,
                            !.amount = StepExpenseAmount,
                            !.description = StepDescription,
                            !.category = StepCategory,
                            !.date = ExpenseDate(NULL, now)]
      [] type = "generate_report" ->
            [IdleReq EXCEPT !.kind = "generateReportStep", !.entry = "wf",
                            !.pc = "stepSelectPaid", !.userId = StepUser,
                            !.period = StepPeriod, !.reportType = StepReportType,
                            !.date = now,
                            !.startDate = PeriodStart(StepPeriod, now)]

\* The messages of the errors a step run against the ledger throws.
MsgConnectionTerminated ==
    <<"c", "o", "n", "n", "e", "c", "t", "i", "o", "n", " ", "t", "e", "r", "m", "i", "n", "a",
      "t", "e", "d", " ", "u", "n", "e", "x", "p", "e", "c", "t", "e", "d", "l", "y">>
MsgReferenceError ==
    <<"C", "a", "n", "n", "o", "t", " ", "a", "c", "c", "e", "s", "s", " ", "'", "e", "x", "p",
      "e", "n", "s", "e", "s", "'", " ", "b", "e", "f", "o", "r", "e", " ", "i", "n", "i", "t",
      "i", "a", "l", "i", "z", "a", "t", "i", "o", "n">>
MsgForeignKey ==
    <<"i", "n", "s", "e", "r", "t", " ", "o", "r", " ", "u", "p", "d", "a", "t", "e", " ", "o",
      "n", " ", "t", "a", "b", "l", "e", " ", "v", "i", "o", "l", "a", "t", "e", "s", " ", "f",
      "o", "r", "e", "i", "g", "n", " ", "k", "e", "y", " ", "c", "o", "n", "s", "t", "r", "a",
      "i", "n", "t">>
MsgUniqueViolation ==
    <<"d", "u", "p", "l", "i", "c", "a", "t", "e", " ", "k", "e", "y", " ", "v", "a", "l", "u",
      "e", " ", "v", "i", "o", "l", "a", "t", "e", "s", " ", "u", "n", "i", "q", "u", "e", " ",
      "c", "o", "n", "s", "t", "r", "a", "i", "n", "t">>
MsgInvalidTime == <<"I", "n", "v", "a", "l", "i", "d", " ", "t", "i", "m", "e", " ", "v", "a", "l", "u", "e">>

\* The Error object the step rejected with, for the error the repository
\* or the step raised.
ThrownFor(err) ==
    [isError |-> TRUE,
     message |-> CASE err = ConnectionError -> MsgConnectionTerminated
                   [] err = ReferenceError -> MsgReferenceError
                   [] err = ForeignKeyError -> MsgForeignKey
                   [] err = UniqueViolationError -> MsgUniqueViolation
                   [] err = InvalidTimeError -> MsgInvalidTime
                   [] err = "User not found" -> MsgUserNotFound
                   [] OTHER -> MsgUnknown]

\* The loop condition holds: const result = await this.executeStep(step),
\* up to the first await of the step.
InvokeLedgerStep ==
    /\ wfPc = "loop"
    /\ LoopCondition(currentStep, retryCount)
    /\ wfPc' = "running"
    /\ inFlight' = inFlight + 1
    /\ attempts' = [attempts EXCEPT ![currentStep] =
                        IF Len(@) < MaxCalls THEN Append(@, "running") ELSE @]
    /\ reqs' = reqs (+) SetToBag({StepRequest(steps[currentStep + 1])})
    /\ UNCHANGED <<steps, currentStep, results, errors, retryCount, delays, ret>>
    /\ UNCHANGED <<clients, invoices, invoiceItems, payments, expenses, lastResponse,
                   started, now>>
    /\ UNCHANGED calcVars

\* generateFinancialSummary of the engine: the select of the paid invoices
\* returns; the next statement, const expenses = await db.select()
\* .from(expenses), reads its own binding before it is initialised and
\* throws.
StepSelectPaid(q) ==
    /\ q.pc = "stepSelectPaid"
    /\ Finish(q, ReferenceError, Response(FALSE, 0, ReferenceError))
    /\ UNCHANGED <<clients, invoices, invoiceItems, payments, expenses, started, now>>
    /\ UNCHANGED wfVars
    /\ UNCHANGED calcVars

\* The step's promise has settled.
StepSettled == wfPc = "running" /\ reqs = EmptyBag

LedgerStepSucceeds ==
    /\ StepSettled
    /\ lastResponse.response.success
    /\ StepSucceeds

LedgerStepThrows ==
    /\ StepSettled
    /\ ~lastResponse.response.success
    /\ StepThrows(ThrownFor(lastResponse.error))

WorkflowLedgerNext ==
    \/ InvokeLedgerStep
    \/ \E q \in InFlight : SelectUser(q)
    \/ \E q \in InFlight : SelectClient(q)
    \/ \E q \in InFlight : InsertClient(q)
    \/ \E q \in InFlight : CountInvoices(q)
    \/ \E q \in InFlight : InsertInvoice(q)
    \/ \E q \in InFlight : InsertItem(q)
    \/ \E q \in InFlight : InsertExpense(q)
    \/ \E q \in InFlight : StepSelectPaid(q)
    \/ \E q \in InFlight : DbFail(q)
    \/ LedgerStepSucceeds
    \/ LedgerStepThrows
    \/ DelayElapsed
    \/ Return

WorkflowLedgerSpec == WorkflowSpecInit /\ [][WorkflowLedgerNext]_vars

(***************************************************************************)
(* Claims about the ledger.                                                *)
(***************************************************************************)
NumbersOf(u) == {invoices[i].invoiceNumber : i \in InvoicesOf(u)}

OnlyUser(u) == \A i \in DOMAIN invoices : invoices[i].userId = u

\* C1 (as claimed): while the ledger holds invoices of one user only, that
\* user's numbers are exactly INV-0001 .. INV-000N, and every CreateInvoice
\* request of that user that met no repository failure is answered with
\* success: a duplicate-number race is never handed back as a failure.
C1_ConcurrentCreatesAllSucceed ==
    \A u \in Users :
        OnlyUser(u) =>
            /\ NumbersOf(u) = {InvoiceNumber(k - 1) : k \in 1..Cardinality(InvoicesOf(u))}
            /\ (lastResponse.kind = "createInvoice" /\ lastResponse.userId = u
                    /\ lastResponse.error # ConnectionError)
                => lastResponse.response.success

\* C2: no two persisted invoices owned by the same user carry the same
\* invoice number, whatever the interleaving of the CreateInvoice requests.
C2_UniqueNumbersPerUser ==
    \A i, j \in DOMAIN invoices :
        (i # j /\ invoices[i].userId = invoices[j].userId)
            => invoices[i].invoiceNumber # invoices[j].invoiceNumber

\* C2 witness: two requests of one user raced for the same number; the
\* loser's insert was rejected while the winner's invoice is persisted.
C2_RaceWitness ==
    /\ lastResponse.kind = "createInvoice"
    /\ lastResponse.error = UniqueViolationError
    /\ \E i \in DOMAIN invoices :
          /\ invoices[i].userId = lastResponse.userId
          /\ invoices[i].invoiceNumber = lastResponse.invoiceNumber

\* C3 (as claimed): every invoice has at most one Payment record.
C3_AtMostOnePayment ==
    \A i \in DOMAIN invoices : Cardinality(PaymentsOf(i)) <= 1

\* C4: a mark-paid request whose select finds the invoice already PAID
\* creates no Payment, leaves the invoice rows (status, paidAt) as they
\* are, and answers with the 'already paid' response, which is none of
\* the success, not-found, validation and generic-failure responses.
C4_AlreadyPaidRejected ==
    [][\A q \in InFlight :
          (/\ q.pc = "selectInvoice"
           /\ MarkPaidLookup(q.invoiceId, q.userId) # {}
           /\ invoices[q.invoiceId].status = "PAID"
           /\ MarkPaidSelectInvoice(q))
          => /\ lastResponse'.response = MarkPaidAlreadyPaid
             /\ lastResponse'.invoiceId = q.invoiceId
             /\ payments' = payments
             /\ invoices' = invoices
             /\ MarkPaidAlreadyPaid \notin
                    {MarkPaidSuccess, MarkPaidNotFound, MarkPaidInvalid, MarkPaidFailure}
      ]_vars

\* C4 witness: an invoice was paid once and a second mark-paid on it was
\* answered 'already paid'.
C4_Witness ==
    /\ lastResponse.kind = "markPaid"
    /\ lastResponse.response = MarkPaidAlreadyPaid
    /\ lastResponse.invoiceId \in DOMAIN invoices
    /\ invoices[lastResponse.invoiceId].status = "PAID"
    /\ Cardinality(PaymentsOf(lastResponse.invoiceId)) = 1

(***************************************************************************)
(* Claims about WorkflowEngine.execute().                                  *)
(***************************************************************************)
StepIndexes == 0..(Len(steps) - 1)

Returned == wfPc = "done"

\* The steps that were attempted at all.
Attempted == {i \in StepIndexes : attempts[i] # <<>>}

Failures(i) == Cardinality({n \in DOMAIN attempts[i] : attempts[i][n] # "ok"})

FatalAt(k) == \E n \in DOMAIN attempts[k] : attempts[k][n] = "fatal"

\* C5: when no step failed fatally and none failed more than 2 times in a
\* row, execute() returns success with completedSteps = the number of
\* steps and a result for every step.
C5_RetriesThenSuccess ==
    (/\ Returned
     /\ \A i \in StepIndexes : ~FatalAt(i) /\ Failures(i) <= 2)
    => /\ ret.success
       /\ ret.completedSteps = Len(steps)
       /\ DOMAIN ret.results = StepIndexes
       /\ \A i \in StepIndexes : ret.results[i] = steps[i + 1]

\* C5 witness: 3 steps, the second failed retriably twice and succeeded on
\* its 3rd attempt, and execute() has returned.
C5_Witness ==
    /\ Returned
    /\ Len(steps) = 3
    /\ attempts[1] = <<"retriable", "retriable", "ok">>
    /\ ret.success
    /\ ret.completedSteps = 3

\* C6: once step k has failed with a fatal error, that attempt is its last,
\* no later step is invoked, and execute() returns success = false,
\* completedSteps = k and exactly the results of steps 0..k-1.
C6_FatalStops ==
    \A k \in StepIndexes :
        FatalAt(k) =>
            /\ attempts[k][Len(attempts[k])] = "fatal"
            /\ \A j \in StepIndexes : j > k => attempts[j] = <<>>
            /\ Returned
            /\ ~ret.success
            /\ ret.completedSteps = k
            /\ DOMAIN ret.results = 0..(k - 1)
            /\ \A j \in 0..(k - 1) : ret.results[j] = steps[j + 1]

\* C6 witness: the second of several steps failed fatally after the first
\* had succeeded.
C6_Witness ==
    /\ Returned
    /\ Len(steps) >= 2
    /\ FatalAt(1)
    /\ ret.completedSteps = 1
    /\ DOMAIN ret.results = {0}

\* C7: no step is invoked more than 3 times; a step that failed retriably
\* on its 3 attempts stops execution there: success = false,
\* completedSteps = its index, no later step invoked.
C7_BoundedRetries ==
    /\ \A i \in StepIndexes : Len(attempts[i]) <= 3
    /\ \A k \in StepIndexes :
          (Returned /\ attempts[k] = <<"retriable", "retriable", "retriable">>)
          => /\ ~ret.success
             /\ ret.completedSteps = k
             /\ k \notin DOMAIN ret.results
             /\ \A j \in StepIndexes : j > k => attempts[j] = <<>>

\* C7 witness: a step other than the first exhausted its 3 attempts.
C7_Witness ==
    /\ Returned
    /\ \E k \in StepIndexes :
          /\ k > 0
          /\ attempts[k] = <<"retriable", "retriable", "retriable">>
          /\ ret.completedSteps = k

\* C8: execute() terminates, whatever the steps and the outcome of each
\* attempt.
C8_Terminates == <>Returned

\* C8 witness: execute() has returned after a step that kept failing with
\* a transient error.
C8_Witness ==
    /\ Returned
    /\ \E k \in StepIndexes : Failures(k) = 3 /\ ~FatalAt(k)

\* C9: steps run in declared order, one at a time: a step is invoked only
\* once every earlier step has its result, and at most one invocation is
\* in flight.
C9_SequentialOrder ==
    /\ inFlight <= 1
    /\ (inFlight = 1) = (wfPc = "running")
    /\ \A i \in Attempted : \A j \in 0..(i - 1) :
          j \in DOMAIN results /\ results[j] = steps[j + 1]

\* C9 witness: the third step is in flight.
C9_Witness ==
    /\ Len(steps) >= 3
    /\ wfPc = "running"
    /\ currentStep = 2
    /\ inFlight = 1

\* C10 (as claimed): after execute() returns, every attempted step has
\* either a result entry or an error entry, never both.
C10_ResultXorError ==
    Returned =>
        \A i \in Attempted :
            (i \in DOMAIN ret.results) # (i \in DOMAIN ret.errors)

\* 2^n
RECURSIVE Pow2(_)
Pow2(n) == IF n = 0 THEN 1 ELSE 2 * Pow2(n - 1)

\* C11 (as claimed): the delay requested after the a-th consecutive failure
\* of a step is base delay x 2^a, and each delay requested for a step is
\* twice the one before it.
C11_ExponentialBackoff ==
    \A a \in DOMAIN delays :
        /\ delays[a] = BaseDelayMs * Pow2(a)
        /\ (a > 1 => delays[a] = 2 * delays[a - 1])

(***************************************************************************)
(* Claims about numbering, totals and the integrity of the ledger.         *)
(***************************************************************************)
\* The invoices of user u created before invoice i.
EarlierOf(u, i) == {j \in InvoicesOf(u) : j < i}

\* 'INV-' followed by k zero-padded to 4 digits.
NumberText(k) == <<"I", "N", "V", "-">> \o PadStart(ToDigits(k), 4, "0")

\* C12: with the requests of a user handled one at a time and no
\* repository failure, the k-th invoice created for the user carries
\* 'INV-' followed by k padded to 4 digits (numbers increase in creation
\* order without gaps), and a successful CreateInvoice reports the number
\* of the invoice it created, k for the user's k-th.
C12_SequentialNumbering ==
    /\ \A u \in Users : \A i \in InvoicesOf(u) :
          invoices[i].invoiceNumber = NumberText(Cardinality(EarlierOf(u, i)) + 1)
    /\ (lastResponse.kind = "createInvoice" /\ lastResponse.response.success)
       => /\ lastResponse.invoiceId \in InvoicesOf(lastResponse.userId)
          /\ lastResponse.invoiceNumber =
                NumberText(Cardinality(EarlierOf(lastResponse.userId,
                                                 lastResponse.invoiceId)) + 1)
          /\ ItemsOf(lastResponse.invoiceId) # {}

\* C12 witness: the second CreateInvoice of a user has succeeded with
\* INV-0002 after the first got INV-0001.
C12_Witness ==
    /\ lastResponse.kind = "createInvoice"
    /\ lastResponse.response.success
    /\ lastResponse.invoiceNumber = <<"I", "N", "V", "-", "0", "0", "0", "2">>
    /\ \E i, j \in InvoicesOf(lastResponse.userId) :
          /\ i < j
          /\ invoices[i].invoiceNumber = <<"I", "N", "V", "-", "0", "0", "0", "1">>
          /\ invoices[j].invoiceNumber = <<"I", "N", "V", "-", "0", "0", "0", "2">>
          /\ ItemsOf(j) # {}

\* C13 (as claimed): a CreateInvoice request of an existing user who holds
\* no invoice, met by no repository failure, succeeds, whatever the other
\* users hold; so a finished request of such a user that failed leaves
\* no such user without an invoice.
C13_NumbersScopedPerUser ==
    (/\ lastResponse.kind = "createInvoice"
     /\ lastResponse.userId \in Users
     /\ lastResponse.error # ConnectionError
     /\ InvoicesOf(lastResponse.userId) = {})
    => lastResponse.response.success

\* C14 (as claimed): the Payment of an invoice created from a VAT-inclusive
\* amount A (its line total is the subtotal A/(1+rate)) is A within 0.01,
\* the total CreateInvoice reported.
C14_PaymentEqualsCreatedTotal ==
    \A k \in DOMAIN payments :
        LET i == payments[k].invoiceId
        IN \A a \in Amounts :
              (/\ invoices[i].vatIncluded
               /\ SumLineTotals(ItemsOf(i)) = Subtotal(a, TRUE))
              => /\ payments[k].amount - CreateTotal(a, TRUE) <= 1
                 /\ CreateTotal(a, TRUE) - payments[k].amount <= 1

\* C15: a mark-paid request whose invoice does not exist or belongs to
\* another user ends at its lookup with the not-found response, and that
\* step changes no invoice (status, paidAt) and no Payment.
C15_NotFoundChangesNothing ==
    [][\A q \in InFlight :
          (/\ q.kind = "markPaid"
           /\ q.pc = "selectInvoice"
           /\ \/ q.invoiceId \notin DOMAIN invoices
              \/ invoices[q.invoiceId].userId # q.userId
           /\ MarkPaidSelectInvoice(q))
          => /\ lastResponse'.response = MarkPaidNotFound
             /\ lastResponse'.userId = q.userId
             /\ lastResponse'.invoiceId = q.invoiceId
             /\ reqs' = reqs (-) SetToBag({q})
             /\ invoices' = invoices
             /\ payments' = payments
      ]_vars

\* C15 witness: a mark-paid by a user who does not own the (existing,
\* unpaid) invoice was answered not-found.
C15_Witness ==
    /\ lastResponse.kind = "markPaid"
    /\ lastResponse.response = MarkPaidNotFound
    /\ lastResponse.invoiceId \in DOMAIN invoices
    /\ invoices[lastResponse.invoiceId].userId # lastResponse.userId
    /\ lastResponse.userId \in Users
    /\ invoices[lastResponse.invoiceId].status = "DRAFT"
    /\ payments = <<>>

C17_InvoiceHasLineItem ==
    \A i \in DOMAIN invoices :
        \/ ItemsOf(i) # {}
        \/ \E q \in InFlight :
              q.kind = "createInvoice" /\ q.pc = "insertItem" /\ q.invoiceId = i

\* C18 (as claimed): no user has two clients of the same name.
C18_ClientNamesUniquePerUser ==
    \A c, d \in DOMAIN clients :
        (c # d /\ clients[c].userId = clients[d].userId)
            => clients[c].name # clients[d].name

\* Parameters the description of CreateInvoice rules out.
Rejectable(clientName, amount, description, dueInDays) ==
    \/ clientName = ""
    \/ amount <= 0
    \/ description = ""
    \/ dueInDays <= 0

\* C19 (as claimed): through every entry point, a CreateInvoice request
\* with an empty clientName, an empty description, an amount <= 0 or a
\* dueInDays <= 0 is rejected at validation, so no such request is ever
\* being handled, and no client, invoice or line item comes from one.
C19_InvalidParametersRejected ==
    /\ \A q \in InFlight :
          q.kind = "createInvoice"
            => ~Rejectable(q.clientName, q.amount, q.description, q.dueInDays)
    /\ \A c \in DOMAIN clients : clients[c].name # ""
    /\ \A k \in DOMAIN invoiceItems :
          invoiceItems[k].description # "" /\ invoiceItems[k].lineTotal > 0

\* The fixed message each AI service handler answers a failure with.
FixedFailureMessage(kind) ==
    CASE kind = "createInvoice" ->
            "Sorry, there was an error creating your invoice. Please try again."
      [] kind = "logExpense" ->
            "Sorry, there was an error logging your expense. Please try again."
      [] kind = "getFinancialSummary" ->
            "Sorry, there was an error generating your financial summary. Please try again."

\* C20 (as claimed): a call of AIService.createInvoice, logExpense or
\* getFinancialSummary that met a validation failure, an unknown user or
\* a repository error returns success = false with the handler's fixed
\* message, which is not the text of the internal error.
C20_FailuresReturnFixedMessage ==
    (/\ lastResponse.entry = "ai"
     /\ lastResponse.error # "" \/ lastResponse.userId \notin Users)
    => /\ ~lastResponse.response.success
       /\ lastResponse.response.message = FixedFailureMessage(lastResponse.kind)
       /\ lastResponse.response.message # lastResponse.error

(***************************************************************************)
(* Reports.                                                                *)
(***************************************************************************)
\* The user's invoices that are PAID with paidAt inside [startDate, endDate].
PaidInvoicesIn(u, startDate, endDate) ==
    {i \in InvoicesOf(u) :
        /\ invoices[i].status = "PAID"
        /\ invoices[i].paidAt # NULL
        /\ startDate <= invoices[i].paidAt
        /\ invoices[i].paidAt <= endDate}

RECURSIVE RevenueOf(_)
RevenueOf(is) ==
    IF is = {} THEN 0
    ELSE LET i == CHOOSE x \in is : TRUE
         IN SumLineTotals(ItemsOf(i)) + RevenueOf(is \ {i})

\* The user's expenses dated inside [startDate, endDate].
ExpensesIn(u, startDate, endDate) ==
    {k \in DOMAIN expenses : /\ expenses[k].userId = u
                             /\ startDate <= expenses[k].date
                             /\ expenses[k].date <= endDate}

RECURSIVE ExpenseTotalOf(_)
ExpenseTotalOf(ks) ==
    IF ks = {} THEN 0
    ELSE LET k == CHOOSE x \in ks : TRUE
         IN expenses[k].amount + ExpenseTotalOf(ks \ {k})

\* A financial summary: of the AI service, or of the reports route.
SummaryStartPcs == {"selectPaidInvoices", "reportSelectPaid"}
SummaryEndPcs == {"selectPeriodExpenses", "reportSelectExpenses"}
IsSummaryRequest(q) ==
    \/ q.kind = "getFinancialSummary"
    \/ q.kind = "report" /\ q.reportType = "financial_summary"

\* C21: the revenue a financial summary reads is the sum of the line totals
\* of the user's invoices that are PAID with paidAt in [period start, now],
\* so an invoice in another status adds nothing; the expenses it reads are
\* the sum of the user's expense amounts dated in that window; and the
\* summary it returns carries exactly these two totals.
C21_SummaryTotals ==
    [][\A q \in InFlight :
        /\ (/\ IsSummaryRequest(q)
            /\ q.pc \in SummaryStartPcs
            /\ \E r \in BagToSet(reqs') : r.pc \in SummaryEndPcs /\ reqs' = Replace(q, r))
           => \A r \in BagToSet(reqs') :
                (r.pc \in SummaryEndPcs /\ reqs' = Replace(q, r))
                => r.total = RevenueOf(PaidInvoicesIn(q.userId, q.startDate, q.date))
        /\ (/\ IsSummaryRequest(q)
            /\ q.pc \in SummaryEndPcs
            /\ reqs' = reqs (-) SetToBag({q})
            /\ lastResponse' # lastResponse
            /\ lastResponse'.response.success)
           => /\ lastResponse'.data.totalRevenue = q.total
              /\ lastResponse'.data.totalExpenses =
                    ExpenseTotalOf(ExpensesIn(q.userId, q.startDate, q.date))]_vars

\* A summary was returned that counts a paid invoice and an expense.
C21_Witness ==
    /\ lastResponse.kind \in {"getFinancialSummary", "report"}
    /\ lastResponse.response.success
    /\ "totalRevenue" \in DOMAIN lastResponse.data
    /\ lastResponse.data.totalRevenue > 0
    /\ lastResponse.data.totalExpenses > 0
    /\ \E i \in DOMAIN invoices : invoices[i].status = "PAID"

\* A request of the advanced service returns, or moves on, at this step.
Returns(q) == reqs' = reqs (-) SetToBag({q}) /\ lastResponse' # lastResponse
MovesTo(q, pc) == \E r \in BagToSet(reqs') : r.pc = pc /\ reqs' = Replace(q, r)

\* C22: for the same user, ledger, clock and period (month, quarter, year)
\* the VAT compliance check and the financial-health analysis of the
\* advanced service select exactly the invoices and the expenses that the
\* VAT report and the financial summary select, those inside
\* [period start, now].
C22_SameWindowEverywhere ==
    [][\A q \in InFlight :
        /\ (/\ q.pc \in {"vatSelectPaid", "healthSelectPaid"}
            /\ q.period \in Periods
            /\ \/ MovesTo(q, "vatSelectExpenses")
               \/ MovesTo(q, "healthSelectExpenses"))
           => PaidRowsSince(q.userId, q.startDate)
                = PaidRows(q.userId, q.startDate, q.date)
        /\ (/\ q.pc \in {"vatSelectExpenses", "healthSelectExpenses"}
            /\ q.period \in Periods
            /\ Returns(q)
            /\ lastResponse'.response.success)
           => ExpensesSince(q.userId, q.startDate)
                = PeriodExpenses(q.userId, q.startDate, q.date)]_vars

\* C23: the VAT-inclusive split round-trips: the subtotal a / (1 + r) and
\* the VAT a - subtotal, each as reported with two decimals, add up to the
\* amount a to within one cent, for every amount and rate.
C23_InclusiveSplitRoundTrips ==
    (split.pc = "done" /\ split.vatIncluded)
        => /\ split.subtotal + split.vatAmount - split.amount <= 1
           /\ split.amount - (split.subtotal + split.vatAmount) <= 1

\* A split whose two rounded parts do not add up to the amount exactly.
C23_Witness ==
    /\ split.pc = "done"
    /\ split.vatIncluded
    /\ split.subtotal + split.vatAmount # split.amount

\* The margin d carries is 0 without revenue and netProfit / revenue x 100
\* otherwise (in hundredths of a percent, rounded down).
MarginOk(d) ==
    /\ d.totalRevenue = 0 => d.margin = 0
    /\ d.totalRevenue > 0 =>
            /\ d.margin * d.totalRevenue <= d.netProfit * 10000
            /\ d.netProfit * 10000 < (d.margin + 1) * d.totalRevenue

\* C24: every summary computation reports a profit margin that is exactly 0
\* when the revenue is 0 and netProfit / revenue x 100 otherwise, and none
\* fails while computing it: the summary of the reports route, the
\* financial-health analysis, and the generate_report step of the workflow
\* engine whenever the repository answered its queries.
C24_MarginZeroWithoutRevenue ==
    /\ (/\ lastResponse.kind \in {"report", "analyzeFinancialHealth"}
        /\ lastResponse.response.success
        /\ "margin" \in DOMAIN lastResponse.data)
       => MarginOk(lastResponse.data)
    /\ (/\ lastResponse.kind = "generateReportStep"
        /\ lastResponse.error # ConnectionError)
       => /\ lastResponse.response.success
          /\ "margin" \in DOMAIN lastResponse.data
          /\ MarginOk(lastResponse.data)

\* The create_invoice steps of the workflow.
CreateInvoiceSteps == {i \in DOMAIN steps : steps[i] = "create_invoice"}

\* C29: a workflow that returned success, whatever retries it took, left
\* exactly one invoice for each of its create_invoice steps, and the user's
\* invoice numbers are INV-0001 .. INV-000N without a gap.
C29_RetriesDoNotDuplicate ==
    (Returned /\ ret.success)
        => /\ Cardinality(InvoicesOf(StepUser)) = Cardinality(CreateInvoiceSteps)
           /\ NumbersOf(StepUser)
                = {NumberText(k) : k \in 1..Cardinality(CreateInvoiceSteps)}

\* The records of the ledger that belong to user u: the invoices, their
\* line items, the expenses.
OwnRecords(u) ==
    <<[i \in InvoicesOf(u) |-> invoices[i]],
      [k \in {x \in DOMAIN invoiceItems : invoiceItems[x].invoiceId \in InvoicesOf(u)}
          |-> invoiceItems[k]],
      [k \in {x \in DOMAIN expenses : expenses[x].userId = u} |-> expenses[k]]>>

\* What getFinancialSummary returns for u and period p on this ledger at
\* this clock.
SummaryOf(u, p) ==
    LET rows == PaidRows(u, PeriodStart(p, now), now)
        exps == PeriodExpenses(u, PeriodStart(p, now), now)
    IN SummaryData(SumLineTotals(rows), SumAmounts(exps), VatCollected(rows),
                   Cardinality(rows), Cardinality(exps))

\* What the VAT report of the reports route returns for u and period p.
VatReportOf(u, p) ==
    LET rows == PaidRows(u, PeriodStart(p, now), now)
        exps == PeriodExpenses(u, PeriodStart(p, now), now)
    IN VatReport(VatCollected(rows), SumExpenseVat(exps),
                 Cardinality(rows), Cardinality(exps))

\* C25: tenant isolation. Two ledgers that agree on the records of user u
\* (here: the ledger before and after a step that touched only other
\* users' records), at the same clock, give u the same financial summary
\* and the same VAT report for every period.
C25_TenantIsolation ==
    [][\A u \in Users :
        (/\ <<invoices, invoiceItems, expenses>>' # <<invoices, invoiceItems, expenses>>
         /\ now' = now
         /\ OwnRecords(u)' = OwnRecords(u))
            => \A p \in Periods : /\ SummaryOf(u, p)' = SummaryOf(u, p)
                                  /\ VatReportOf(u, p)' = VatReportOf(u, p)]_vars

\* A user was handed a summary or a VAT report that shows no invoice, while
\* another user holds an invoice that is paid.
C25_Witness ==
    /\ lastResponse.kind \in {"getFinancialSummary", "report"}
    /\ lastResponse.response.success
    /\ "invoiceCount" \in DOMAIN lastResponse.data
    /\ lastResponse.data.invoiceCount = 0
    /\ lastResponse.userId \in Users
    /\ \E i \in DOMAIN invoices : /\ invoices[i].userId # lastResponse.userId
                                 /\ invoices[i].status = "PAID"
                                 /\ invoices[i].paidAt <= now
    /\ \E k \in DOMAIN expenses : expenses[k].userId # lastResponse.userId

\* The rows of every table of the ledger.
Tables == <<clients, invoices, invoiceItems, payments, expenses>>

\* C26: processQuery never throws. When the model call fails, it returns
\* intent HELP, confidence 0, no parameters and the apology, and the chat
\* route answers that message without entering a handler and without
\* changing a table.
C26_FallbackOnModelFailure ==
    [][(/\ lastResponse' # lastResponse
        /\ lastResponse'.kind = "chat"
        /\ lastResponse'.error = ModelCallError)
       => /\ lastResponse'.data.aiResult.intent = "HELP"
          /\ lastResponse'.data.aiResult.confidence = 0
          /\ DOMAIN lastResponse'.data.aiResult.parameters = {}
          /\ lastResponse'.data.aiResult.response
               = "I had trouble understanding your request. Please try again."
          /\ lastResponse'.response = ChatSuccess
          /\ \E q \in InFlight : q.pc = "processQuery" /\ reqs' = reqs (-) SetToBag({q})
          /\ Tables' = Tables]_vars

\* The model call of a chat message failed and the route answered, on a
\* ledger that holds an invoice.
C26_Witness ==
    /\ lastResponse.kind = "chat"
    /\ lastResponse.error = ModelCallError
    /\ invoices # <<>>

\* C27: the call of the intent resolver is bounded: a chat message that is
\* waiting for the model is eventually answered, even if the model never
\* answers.
C27_ResolverCallBounded ==
    (\E q \in InFlight : q.pc = "processQuery")
        ~> (\A q \in InFlight : q.pc # "processQuery")

\* C28: once a mark-paid request has finished, with a success or with an
\* error, and none is still running, every invoice in status PAID has a
\* payment: the status and the payment change together or not at all.
C28_PaidInvoiceHasPayment ==
    (/\ lastResponse.kind = "markPaid"
     /\ \A q \in InFlight : q.kind # "markPaid")
    => \A i \in DOMAIN invoices :
          invoices[i].status = "PAID"
          => \E p \in DOMAIN payments : payments[p].invoiceId = i

\* The joined rows of the paid invoices of a user.
PaidRowsOf(u) ==
    {k \in DOMAIN invoiceItems :
        /\ invoices[invoiceItems[k].invoiceId].userId = u
        /\ invoices[invoiceItems[k].invoiceId].status = "PAID"}

\* C30: the VAT collected that a VAT report attributes to a paid invoice is
\* the VAT amount computed when the invoice was created, within one cent:
\* amount - amount / (1 + rate) for a VAT-inclusive amount, amount * rate
\* for a VAT-exclusive one.
C30_VatCollectedIsCreationVat ==
    (/\ lastResponse.kind = "report"
     /\ lastResponse.response.success
     /\ "vatCollected" \in DOMAIN lastResponse.data
     /\ lastResponse.data.invoiceCount = 1
     /\ Cardinality(PaidRowsOf(lastResponse.userId)) = 1)
    => \A k \in PaidRowsOf(lastResponse.userId), a \in Amounts :
          LET inv == invoices[invoiceItems[k].invoiceId]
          IN Subtotal(a, inv.vatIncluded) = invoiceItems[k].lineTotal
             => \E va \in VatAmountAt(a, inv.vatIncluded, inv.vatRate) :
                   /\ lastResponse.data.vatCollected - va <= 1
                   /\ va - lastResponse.data.vatCollected <= 1

=============================================================================
